---- MODULE Spec2Model ----
(***************************************************************************)
(* PDFProTool: the page-rendering widget of src/pdf_viewer.py              *)
(* (PDFViewWidget, RenderWorker, PDFScrollView) as a state machine.        *)
(*                                                                         *)
(* Zoom factors are Python floats in the source.  They are modelled in     *)
(* fixed point: the integer z stands for the zoom z / ZOOM_UNIT, so 1.0    *)
(* is 1000000 and the source's tolerance 0.001 is 1000.  Lengths (scroll   *)
(* offsets, page sizes) are whole pixels / points.                         *)
(***************************************************************************)
EXTENDS Integers, Sequences, FiniteSets, TLC

\* ------------------------------------------------------------------ bounds
\* how many modifier-wheel events a behaviour may contain
MaxWheel == 1
\* how many lerp ticks a behaviour may contain
MaxLerp == 1
\* how many workers, running or with queued signals, the pool may hold
MaxTasks == 1
\* how many document mutations a behaviour may contain
MaxEdits == 1
\* the slots of the pool where two workers are to run side by side
TwoTasks == 2
\* modifier-wheel events in the specification of the zoom round trip
TwoGestures == 2
\* how many stamps are placed on the pages
MaxStamps == 1
\* the queued commits of focus-out handlers that are told apart
MaxPending == 1

\* ------------------------------------------------------- program constants
PAGE_GAP == 16
VIEWPORT_H == 600
\* capacities of _render_cache and _low_res_cache
HIGH_RES_CAP == 30
LOW_RES_CAP == 150
\* _visible_page_range: pixels rendered beyond the viewport
VISIBLE_BUFFER == 500
\* _prerender_near_pages: defaults of lookahead and lookbehind
LOOKAHEAD == 10
LOOKBEHIND == 4

ZOOM_UNIT == 1000 * 1000
\* 0.001, the tolerance of set_zoom, _on_zoom_finished and _is_render_valid
ZOOM_EPS == ZOOM_UNIT \div 1000
\* 0.0005, the snap distance of _lerp_zoom
LERP_EPS == ZOOM_UNIT \div 2000
MIN_ZOOM == ZOOM_UNIT \div 10
MAX_ZOOM == 8 * ZOOM_UNIT

\* ------------------------------------------------------------- arithmetic
Abs(x) == IF x < 0 THEN -x ELSE x
Max(a, b) == IF a >= b THEN a ELSE b
Min(a, b) == IF a <= b THEN a ELSE b

\* one step of the long multiplication: <<q, r>> for a from the pair half
\* for a \div 2
MulDivStep(half, a, b, c) ==
    LET m2 == 2 * half[2]
        q2 == 2 * half[1] + (m2 \div c)
        r2 == m2 % c
        r3 == IF a % 2 = 1 THEN r2 + (b % c) ELSE r2
        q3 == IF a % 2 = 1 THEN q2 + (b \div c) ELSE q2
    IN  <<q3 + (r3 \div c), r3 % c>>

\* <<q, r>> with a * b = q * c + r and 0 <= r < c, for a, b >= 0 and c > 0,
\* by binary long multiplication so that no intermediate value exceeds
\* 2 * c + b; the pair for a \div 2 is computed once per step
RECURSIVE MulDivMod(_, _, _)
MulDivMod(a, b, c) ==
    IF a = 0 THEN <<0, 0>>
    ELSE CHOOSE qr \in { MulDivStep(half, a, b, c) :
                            half \in { MulDivMod(a \div 2, b, c) } } : TRUE

\* floor(a * b / c) for a, b >= 0, c > 0: a float product followed by int()
MulDiv(a, b, c) == MulDivMod(a, b, c)[1]

\* a zoom cut off after 3 decimals
Truncate3(z) == (z \div ZOOM_EPS) * ZOOM_EPS

\* Python round(z, 3): to the nearest multiple of 0.001, ties to even
Round3(z) ==
    LET q == z \div ZOOM_EPS
        r == z % ZOOM_EPS
    IN  IF 2 * r > ZOOM_EPS THEN (q + 1) * ZOOM_EPS
        ELSE IF 2 * r < ZOOM_EPS THEN q * ZOOM_EPS
        ELSE IF q % 2 = 0 THEN q * ZOOM_EPS ELSE (q + 1) * ZOOM_EPS

\* a clamp that lets every value through
NoClamp(z) == z

\* max(0.1, min(z, 8.0))
ClampZoom(z) == Max(MIN_ZOOM, Min(z, MAX_ZOOM))

\* ------------------------------------------------------------------ state
VARIABLES
    zoom,            \* _zoom: the committed zoom
    visual_zoom,     \* _visual_zoom
    zoom_target,     \* _zoom_target
    is_zooming,      \* _is_zooming
    zoom_timer,      \* _zoom_timer is active (single shot, debounce)
    settle_timer,    \* _zoom_settle_timer is active (single shot)
    lerp_timer,      \* _lerp_timer is active (repeating, 16 ms)
    gesture,         \* <<>> or <<[scroll0, zoom0, vh, anchor]>>: _zoom_gesture_*
    vbar,            \* value of the scroll area's vertical scroll bar
    page_rects,      \* _page_rects: sequence of [w, h] in points
    page_offsets,    \* _page_offsets
    page_heights,    \* _page_heights
    doc,             \* <<>> (no document) or <<content>>: the live document _doc
    file_path,       \* _file_path: "" or the path of the file
    file_content,    \* the content of the file at file_path, on disk
    doc_bytes_snapshot, \* <<>> (None) or <<content>>: _doc_bytes_snapshot
    render_cache,    \* _render_cache: OrderedDict, oldest first, of [key, img]
    low_res_cache,   \* _low_res_cache: OrderedDict, oldest first, of [key, img]
    pending_renders, \* _pending_renders: set of keys
    tasks,           \* the slots of the thread pool: RenderWorker objects
    signals,         \* finished signals queued to the main thread, oldest first
    pool_cap,        \* how many slots the model gives the thread pool
    n_wheel,         \* history: modifier-wheel events so far
    n_lerp,          \* history: lerp ticks so far
    commits,         \* history: the last two anchored commits of _on_zoom_finished
    use_high,        \* history: keys of the high-res tier, least recently used first
    use_low,         \* history: keys of the low-res tier, least recently used first
    delivery,        \* history: <<>> or <<the last call of _on_render_finished>>
    mode,            \* mode: the interaction mode of the widget
    text_edit_widget, \* <<>> (None) or <<editor>>: _text_edit_widget and its line
    closed_edit,     \* history: <<>> or <<the last commit of an open editor>>
    focus_out_commits, \* the _commit_text_edit calls that focus-out handlers have queued
    text_edit_lines_cache, \* _text_edit_lines_cache: the pages whose lines are cached
    text_edit_hover_line,  \* _text_edit_hover_line: <<>> (None) or <<line>>
    text_edit_hover_page,  \* _text_edit_hover_page: -1 or a page index
    pending_text_config,   \* pending_text_config: <<>> ({}) or <<config>>
    crop_start_pos,  \* _crop_start_pos: <<>> (None) or <<position>>
    crop_current_pos, \* _crop_current_pos: <<>> (None) or <<position>>
    crop_callback,   \* _crop_callback: <<>> (None) or <<callback>>
    crop_release,    \* history: <<>> or <<the last release of a crop drag>>
    annots,          \* the annotations of page 0 of the live document: [id, rect, text]
    overlay_stamps,  \* _overlay_stamps: [id, rect, selected]
    selected_annot,  \* _selected_annot: <<>> (None) or <<id of an annotation>>
    drag,            \* <<>> or <<_drag_annot, _is_resizing, _orig_rect, and: moved>>
    stamps_placed,   \* history: how many stamps were placed
    released,        \* history: <<>> or <<the last release that ended a drag>>
    ai_task_worker,  \* MainWindow._ai_task_worker: <<>> or <<[task, running]>>
    ocr_worker,      \* OCRManager._current_worker: <<>> or <<[language, running]>>
    save_worker,     \* MainWindow._save_worker: <<>> or <<[running]>>
    enabled,         \* whether the main window is enabled
    request,         \* history: <<>> or <<the last request for a background task>>
    args,            \* the arguments of a function that is applied on its own
    result           \* <<>> or <<the value of the function for args>>

zoom_vars == <<zoom, visual_zoom, zoom_target, is_zooming, zoom_timer,
               settle_timer, lerp_timer, gesture, vbar>>
layout_vars == <<page_rects, page_offsets, page_heights>>
doc_vars == <<doc, file_path, file_content, doc_bytes_snapshot>>
cache_vars == <<render_cache, low_res_cache>>
task_vars == <<tasks, signals>>
annot_vars == <<annots, overlay_stamps, selected_annot, drag, stamps_placed,
                released>>
host_vars == <<ai_task_worker, ocr_worker, save_worker, enabled, request>>
bound_vars == <<pool_cap>>
calc_vars == <<args, result>>
hist_vars == <<n_wheel, n_lerp, commits>>
lru_vars == <<use_high, use_low, delivery>>
te_vars == <<text_edit_lines_cache, text_edit_hover_line, text_edit_hover_page>>
crop_vars == <<crop_start_pos, crop_current_pos, crop_callback, crop_release>>
mode_vars == <<mode, text_edit_widget, closed_edit, focus_out_commits, te_vars, pending_text_config,
               crop_vars>>
vars == <<zoom_vars, layout_vars, doc_vars, cache_vars, pending_renders, task_vars,
          hist_vars, lru_vars, mode_vars, annot_vars,
                   host_vars, bound_vars, calc_vars>>

\* ----------------------------------------------------------------- layout
\* _recalculate_layout: the offsets and heights of the pages at zoom z
\* a layout that stacks the pages without a gap
NextYNoGap(y, h) == y + h

\* y += h + PAGE_GAP
NextY(y, h) == y + h + PAGE_GAP

RECURSIVE LayoutFrom(_, _, _, _, _)
LayoutFrom(rects, z, i, y, acc) ==
    IF i > Len(rects) THEN acc
    ELSE LET h == MulDiv(rects[i].h, z, ZOOM_UNIT)
         IN  LayoutFrom(rects, z, i + 1, NextY(y, h),
                        [offsets |-> Append(acc.offsets, y),
                         heights |-> Append(acc.heights, h)])

_recalculate_layout(rects, z) ==
    LayoutFrom(rects, z, 1, PAGE_GAP, [offsets |-> <<>>, heights |-> <<>>])

\* bisect.bisect_right(a, x): the binary search of the standard library
RECURSIVE BisectLoop(_, _, _, _)
BisectLoop(a, x, lo, hi) ==
    IF lo >= hi THEN lo
    ELSE LET mid == (lo + hi) \div 2
         IN  IF x < a[mid + 1] THEN BisectLoop(a, x, lo, mid)
             ELSE BisectLoop(a, x, mid + 1, hi)

bisect_right(a, x) == BisectLoop(a, x, 0, Len(a))

\* page_at_y: 0-based page index at y
page_at_y(offsets, y) ==
    IF Len(offsets) = 0 THEN 0
    ELSE Max(0, Min(bisect_right(offsets, y) - 1, Len(offsets) - 1))

\* the layout the widget holds after _recalculate_layout() at zoom z
LayoutAt(z) ==
    IF doc = <<>> THEN [offsets |-> <<>>, heights |-> <<>>]
    ELSE _recalculate_layout(page_rects, z)

\* ------------------------------------------------------------ render cache
\* a cache key: (page_index, round(zoom, 3))
Key(p, z) == [page |-> p, z |-> Round3(z)]

\* collections.OrderedDict as a sequence of [key, img], oldest first
ODHas(od, k) == \E i \in 1..Len(od) : od[i].key = k
ODIndex(od, k) == CHOOSE i \in 1..Len(od) : od[i].key = k
\* a deletion that deletes nothing
ODKeep(od, k) == od
\* del od[k]
ODDel(od, k) == SelectSeq(od, LAMBDA e : e.key # k)
\* od[k] = v: a new key goes to the end, a present key keeps its position
ODSet(od, k, v) ==
    IF ODHas(od, k)
    THEN [i \in 1..Len(od) |-> IF od[i].key = k THEN [key |-> k, img |-> v] ELSE od[i]]
    ELSE Append(od, [key |-> k, img |-> v])
\* od.move_to_end(k)
ODMoveToEnd(od, k) == Append(ODDel(od, k), od[ODIndex(od, k)])
\* the recency order of a tier, as a sequence of keys: k was just used
Touch(use, k) == Append(SelectSeq(use, LAMBDA x : x # k), k)
Forget(use, k) == SelectSeq(use, LAMBDA x : x # k)

\* ---------------------------------------------------------- render tasks
\* The handlers below thread the record R = [rc, pend, ts, uh] through the
\* calls they make: _render_cache, _pending_renders, the workers of the
\* thread pool, and the recency order of the high-res tier.

\* RenderWorker.__init__ as called by _start_render_task at zoom z. History:
\* sched is the content of the captured source when the worker is started,
\* stale says that the committed zoom has changed since
\* the path of a second file, and the document it holds
OTHER_PATH == "b.pdf"
OtherOpened == [rev |-> 0, text |-> << "b" >>, text2 |-> << "c" >>]

\* the content on disk of the file at path: file_content is the content of
\* the file the widget was first given
FileAt(path) == IF path = OTHER_PATH THEN OtherOpened ELSE file_content

NewWorker(i, key, z) ==
    [page |-> i, zoom |-> z, key |-> key, file_path |-> file_path,
     doc_bytes |-> doc_bytes_snapshot, pc |-> "queued", src |-> <<>>,
     sched |-> IF doc_bytes_snapshot # <<>> THEN doc_bytes_snapshot[1]
               ELSE FileAt(file_path),
     stale |-> FALSE]

\* a slot of the thread pool whose worker has returned from run()
Idle ==
    [page |-> 0, zoom |-> 0, key |-> Key(0, 0), file_path |-> "",
     doc_bytes |-> <<>>, pc |-> "done", src |-> <<>>, sched |-> <<>>,
     stale |-> FALSE]

\* the slots a new worker can take: the worker has finished and none of its
\* signals is still queued
FreeSlots(ts) ==
    { t \in 1..Len(ts) : /\ ts[t].pc = "done"
                         /\ \A j \in 1..Len(signals) : signals[j].task # t }

\* QThreadPool.start(worker)
PoolStart(ts, w) ==
    IF FreeSlots(ts) # {}
    THEN [ts EXCEPT ![CHOOSE t \in FreeSlots(ts) :
                        \A u \in FreeSlots(ts) : t <= u] = w]
    ELSE Append(ts, w)

\* PDFViewWidget._start_render_task
_start_render_task(R, i, key, z) ==
    IF doc = <<>> \/ (file_path = "" /\ doc_bytes_snapshot = <<>>)
    THEN R
    ELSE [R EXCEPT !.pend = R.pend \cup {key},
                   !.ts = PoolStart(R.ts, NewWorker(i, key, z))]

\* PDFViewWidget._get_page_pixmap: its effect on the state
_get_page_pixmap(R, i, z) ==
    LET key == Key(i, z)
    IN  IF ODHas(R.rc, key)
        THEN [R EXCEPT !.rc = ODMoveToEnd(R.rc, key), !.uh = Touch(R.uh, key)]
        ELSE IF key \notin R.pend THEN _start_render_task(R, i, key, z) ELSE R

\* a range that starts at the first page whose offset is beyond the top
NarrowRange(offsets, scroll) ==
    LET n == Len(offsets)
        top == scroll - VISIBLE_BUFFER
        bottom == scroll + VIEWPORT_H + VISIBLE_BUFFER
    IN  IF n = 0 THEN <<0, 0>>
        ELSE << Max(0, bisect_right(offsets, top)),
                Min(n, bisect_right(offsets, bottom)) >>

\* PDFViewWidget._visible_page_range: <<start, end>>, end exclusive
_visible_page_range(offsets, scroll) ==
    LET n == Len(offsets)
        top == scroll - VISIBLE_BUFFER
        bottom == scroll + VIEWPORT_H + VISIBLE_BUFFER
    IN  IF n = 0 THEN <<0, 0>>
        ELSE << Max(0, bisect_right(offsets, top) - 1),
                Min(n, bisect_right(offsets, bottom)) >>

\* the loop of _prerender_near_pages over the pages i .. last - 1
RECURSIVE PrerenderPages(_, _, _, _)
PrerenderPages(R, i, last, z) ==
    IF i >= last THEN R
    ELSE LET key == Key(i, z)
             R1 == IF ~ODHas(R.rc, key) /\ key \notin R.pend
                   THEN _start_render_task(R, i, key, z)
                   ELSE R
         IN  PrerenderPages(R1, i + 1, last, z)

\* PDFViewWidget._prerender_near_pages(center_page) with the layout offsets
_prerender_near_pages(R, center_page, offsets, z) ==
    IF doc = <<>> THEN R
    ELSE PrerenderPages(R, Max(0, center_page - LOOKBEHIND),
                        Min(Len(offsets), center_page + LOOKAHEAD + 1), z)

\* PDFViewWidget.visible_page for a scroll value
visible_page(offsets, scroll) == page_at_y(offsets, scroll + VIEWPORT_H \div 2)

\* vbar.setValue(v): valueChanged runs PDFScrollView._on_scroll when the value
\* changes, which pre-renders around the visible page
SetScroll(R, v, offsets, z) ==
    IF v = vbar THEN R
    ELSE _prerender_near_pages(R, visible_page(offsets, v), offsets, z)

\* history: the committed zoom becomes z while workers are running
MarkStale(ts, z) ==
    [t \in 1..Len(ts) |->
        IF ts[t].pc # "done" /\ ts[t].zoom # z
        THEN [ts[t] EXCEPT !.stale = TRUE] ELSE ts[t]]

\* history: the queued signals of the workers MarkStale marks
MarkSignals(sg, ts, z) ==
    [j \in 1..Len(sg) |->
        IF ts[sg[j].task].pc # "done" /\ ts[sg[j].task].zoom # z
        THEN [sg[j] EXCEPT !.stale = TRUE] ELSE sg[j]]

\* the record R of the current state, and with the zoom committed to z
Now == [rc |-> render_cache, pend |-> pending_renders, ts |-> tasks, uh |-> use_high]
NowAt(z) == [Now EXCEPT !.ts = MarkStale(tasks, z)]

\* -------------------------------------------------------- zoom controller
\* a modifier-wheel event ev is [pixel_y, angle_y]: pixelDelta().y() and
\* angleDelta().y()
TickIn == [pixel_y |-> 0, angle_y |-> 120]
TickOut == [pixel_y |-> 0, angle_y |-> -120]
\* a burst of wheel-out ticks in one event: the factor is below zero
BurstOut == [pixel_y |-> 0, angle_y |-> -1800]
\* touchpad deltas: factors 2.0, 0.5 and 9.0
PixelsDouble == [pixel_y |-> 250, angle_y |-> 0]
PixelsHalf == [pixel_y |-> -125, angle_y |-> 0]
PixelsNine == [pixel_y |-> 2000, angle_y |-> 0]
\* a horizontal wheel event: the factor is 1.0
NoDelta == [pixel_y |-> 0, angle_y |-> 0]

\* the factor of wheelEvent, in thousandths
WheelFactor(ev) ==
    IF ev.pixel_y # 0 THEN 1000 + 4 * ev.pixel_y
    ELSE 1000 + (ev.angle_y * 70) \div 120

\* _zoom_target *= factor, then the clamp
ScaledTarget(t, f) ==
    IF f <= 0 THEN ClampZoom(0) ELSE ClampZoom(MulDiv(t, f, 1000))

\* zoom requests: two values typed into the zoom box; a request inside the
\* range and two outside
TypedZooms == { ZOOM_UNIT, 5 * (ZOOM_UNIT \div 4) }
\* the zoom after one zoom-out from 1.0 (1.0 / 1.25), and 1.0
ZoomOutIn == { 4 * (ZOOM_UNIT \div 5), ZOOM_UNIT }
ZoomRequests == { 0, 5 * (ZOOM_UNIT \div 4), 10 * ZOOM_UNIT }

\* a scroll position that keeps the centre of the viewport fixed, wherever
\* the cursor is
CentredScroll(scroll0, anchor, z1, z0) ==
    Max(0, MulDiv(scroll0 + anchor, z1, z0) - VIEWPORT_H \div 2)

\* the scroll position that keeps the anchor fixed:
\* max(0, int((scroll0 + anchor) * (z1 / z0) - anchor))
AnchoredScroll(scroll0, anchor, z1, z0) ==
    Max(0, MulDiv(scroll0 + anchor, z1, z0) - anchor)

\* the height of the widget after _recalculate_layout() at zoom z
TotalHeight(rects, z) ==
    LET L == _recalculate_layout(rects, z)
        n == Len(rects)
    IN  IF n = 0 THEN 0 ELSE L.offsets[n] + L.heights[n] + PAGE_GAP

\* the maximum of the vertical scroll bar for the layout at zoom z
ScrollMax(z) ==
    IF doc = <<>> THEN 0 ELSE Max(0, TotalHeight(page_rects, z) - VIEWPORT_H)

\* the value the scroll bar holds after setValue(v) with the layout at zoom z
setValue(v, z) == Max(0, Min(v, ScrollMax(z)))

\* the counters after a handler
Hist(dw, dl) ==
    /\ n_wheel' = n_wheel + dw
    /\ n_lerp' = n_lerp + dl

\* the handler leaves the render state R behind
Leave(R) ==
    /\ Len(R.ts) <= pool_cap
    /\ render_cache' = R.rc
    /\ pending_renders' = R.pend
    /\ tasks' = R.ts
    /\ use_high' = R.uh

\* a wheelEvent that commits the zoom and the layout at once
wheelEventCommitting(ev, cursor_vp_y) ==
    /\ gesture' = IF ~lerp_timer
                  THEN << [scroll0 |-> vbar, zoom0 |-> zoom, vh |-> VIEWPORT_H,
                           anchor |-> Max(0, Min(cursor_vp_y, VIEWPORT_H))] >>
                  ELSE gesture
    /\ zoom_target' = ScaledTarget(zoom_target, WheelFactor(ev))
    /\ zoom' = Round3(ScaledTarget(zoom_target, WheelFactor(ev)))
    /\ page_offsets' = LayoutAt(zoom').offsets
    /\ page_heights' = LayoutAt(zoom').heights
    /\ is_zooming' = TRUE
    /\ lerp_timer' = TRUE
    /\ zoom_timer' = TRUE
    /\ Hist(1, 0)
    /\ UNCHANGED <<visual_zoom, settle_timer, vbar, page_rects, doc_vars,
                   cache_vars, pending_renders, task_vars, commits, lru_vars,
                   mode_vars, annot_vars,
                   host_vars, bound_vars, calc_vars>>

\* PDFViewWidget.wheelEvent with the Control modifier held
wheelEvent(ev, cursor_vp_y) ==
    /\ gesture' = IF ~lerp_timer
                  THEN << [scroll0 |-> vbar, zoom0 |-> zoom, vh |-> VIEWPORT_H,
                           anchor |-> Max(0, Min(cursor_vp_y, VIEWPORT_H))] >>
                  ELSE gesture
    /\ zoom_target' = ScaledTarget(zoom_target, WheelFactor(ev))
    /\ is_zooming' = TRUE
    /\ lerp_timer' = TRUE
    /\ zoom_timer' = TRUE
    /\ Hist(1, 0)
    /\ UNCHANGED <<zoom, visual_zoom, settle_timer, vbar, layout_vars, doc_vars,
                   cache_vars, pending_renders, task_vars, commits, lru_vars,
                   mode_vars, annot_vars,
                   host_vars, bound_vars, calc_vars>>

\* PDFScrollView.set_zoom(z), which calls PDFViewWidget.set_zoom(z)
set_zoom(z) ==
    /\ Hist(0, 0)
    /\ LET zc == ClampZoom(z)
           new_vscroll == AnchoredScroll(vbar, VIEWPORT_H \div 2, zc, zoom)
           v == setValue(IF Abs(zc - zoom) > ZOOM_EPS THEN new_vscroll ELSE vbar, zc)
       IN  IF Abs(zc - zoom) < ZOOM_EPS
           THEN UNCHANGED <<zoom_vars, layout_vars, pending_renders, task_vars>>
           ELSE /\ zoom' = zc
                /\ visual_zoom' = zc
                /\ zoom_target' = zc
                /\ is_zooming' = TRUE
                /\ page_offsets' = LayoutAt(zc).offsets
                /\ page_heights' = LayoutAt(zc).heights
                /\ zoom_timer' = TRUE
                /\ vbar' = v
                /\ Leave(SetScroll(NowAt(zc), v, LayoutAt(zc).offsets, zc))
                /\ signals' = MarkSignals(signals, tasks, zc)
                /\ UNCHANGED <<settle_timer, lerp_timer, gesture, page_rects>>
    /\ UNCHANGED <<doc_vars, cache_vars, commits, lru_vars, mode_vars, annot_vars,
                   host_vars, bound_vars, calc_vars>>

\* history: the last two entries of the commits
LastTwo(c) == IF Len(c) > 2 THEN Tail(c) ELSE c

\* PDFViewWidget._on_zoom_finished: the debounce timer expires. The values
\* the handler computes once (the rounded zoom z1, the layout L at z1, the
\* scroll value v, the render state R) are bound once.
_on_zoom_finished ==
    /\ zoom_timer
    /\ zoom_timer' = FALSE
    /\ Hist(0, 0)
    /\ IF Abs(zoom_target - zoom) > ZOOM_EPS
       THEN LET final_scroll ==
                    IF gesture # <<>> /\ gesture[1].zoom0 > 0
                    THEN AnchoredScroll(gesture[1].scroll0, gesture[1].anchor,
                                        zoom_target, gesture[1].zoom0)
                    ELSE 0
            IN  \E z1 \in { Round3(zoom_target) } :
                \E L \in { LayoutAt(z1) } :
                \E v \in { setValue(IF gesture # <<>> THEN final_scroll ELSE vbar, z1) } :
                \E R \in { SetScroll(NowAt(z1), v, L.offsets, z1) } :
                    /\ lerp_timer' = FALSE
                    /\ zoom' = z1
                    /\ visual_zoom' = z1
                    /\ page_offsets' = L.offsets
                    /\ page_heights' = L.heights
                    /\ vbar' = v
                    /\ Len(R.ts) <= pool_cap
                    /\ tasks' = R.ts
                    /\ signals' = MarkSignals(signals, tasks, z1)
                    /\ commits' = IF gesture # <<>>
                                  THEN LastTwo(Append(commits,
                                         [s0 |-> gesture[1].scroll0,
                                          z0 |-> gesture[1].zoom0,
                                          a  |-> gesture[1].anchor,
                                          t1 |-> zoom_target,
                                          z1 |-> z1,
                                          s1 |-> v]))
                                  ELSE commits
       ELSE UNCHANGED <<lerp_timer, zoom, visual_zoom, page_offsets,
                        page_heights, vbar, commits, task_vars>>
    /\ pending_renders' = {}
    /\ settle_timer' = TRUE
    /\ UNCHANGED <<zoom_target, is_zooming, gesture, page_rects, doc_vars,
                   cache_vars, lru_vars, mode_vars, annot_vars,
                   host_vars, bound_vars, calc_vars>>

\* a step of 1.22 times the difference: beyond the target
LerpOvershoot(diff) ==
    IF diff >= 0 THEN (diff * 122) \div 100 ELSE -(((-diff) * 122) \div 100)

\* diff * 0.22, rounded toward zero
LerpStep(diff) ==
    IF diff >= 0 THEN (diff * 22) \div 100 ELSE -(((-diff) * 22) \div 100)

\* PDFViewWidget._lerp_zoom: one tick of the 16 ms timer
_lerp_zoom ==
    /\ lerp_timer
    /\ Hist(0, 1)
    /\ LET diff == zoom_target - visual_zoom
       IN  IF Abs(diff) < LERP_EPS
           THEN /\ visual_zoom' = zoom_target
                /\ lerp_timer' = FALSE
           ELSE /\ visual_zoom' = visual_zoom + LerpStep(diff)
                /\ UNCHANGED lerp_timer
    /\ UNCHANGED <<zoom, zoom_target, is_zooming, zoom_timer, settle_timer,
                   gesture, vbar, layout_vars, doc_vars, cache_vars,
                   pending_renders, task_vars, commits, lru_vars, mode_vars, annot_vars,
                   host_vars, bound_vars, calc_vars>>

\* PDFViewWidget._on_zoom_settled: the settle timer expires
_on_zoom_settled ==
    /\ settle_timer
    /\ settle_timer' = FALSE
    /\ is_zooming' = FALSE
    /\ Hist(0, 0)
    /\ UNCHANGED <<zoom, visual_zoom, zoom_target, zoom_timer, lerp_timer,
                   gesture, vbar, layout_vars, doc_vars, cache_vars,
                   pending_renders, task_vars, commits, lru_vars, mode_vars, annot_vars,
                   host_vars, bound_vars, calc_vars>>

\* ------------------------------------------------------------- rendering
\* int(c + d * (visual_zoom / zoom)): the float is truncated toward zero
ScaledY(c, d) ==
    IF d >= 0 THEN c + MulDiv(d, visual_zoom, zoom)
    ELSE LET qr == MulDivMod(-d, visual_zoom, zoom)
             fl == IF qr[2] = 0 THEN c - qr[1] ELSE c - qr[1] - 1
         IN  IF fl >= 0 \/ qr[2] = 0 THEN fl ELSE fl + 1

\* self.height(): the widget is at least as high as the viewport
WidgetHeight == Max(TotalHeight(page_rects, zoom), VIEWPORT_H)

\* paintEvent: page i (0-based) is strictly offscreen and is skipped
Offscreen(i) ==
    LET view_cy == vbar + (IF is_zooming /\ gesture # <<>>
                           THEN gesture[1].anchor ELSE VIEWPORT_H \div 2)
        page_y == ScaledY(view_cy, page_offsets[i + 1] - view_cy)
        page_h == MulDiv(page_heights[i + 1], visual_zoom, zoom)
    IN  page_y + page_h < -100 \/ page_y > WidgetHeight + 100

\* the loop of paintEvent over the pages i .. last - 1
RECURSIVE PaintPages(_, _, _)
PaintPages(R, i, last) ==
    IF i >= last THEN R
    ELSE PaintPages(IF Offscreen(i) THEN R ELSE _get_page_pixmap(R, i, zoom),
                    i + 1, last)

\* PDFViewWidget.paintEvent: its effect on the caches and the render tasks
paintEvent ==
    /\ doc # <<>>
    /\ \E r \in { _visible_page_range(page_offsets, vbar) } :
       \E R \in { PaintPages(Now, r[1], Min(r[2], Len(page_rects))) } : Leave(R)
    /\ Hist(0, 0)
    /\ UNCHANGED <<zoom_vars, layout_vars, doc_vars, low_res_cache, signals,
                   commits, use_low, delivery, mode_vars, annot_vars,
                   host_vars, bound_vars, calc_vars>>

\* the pages paintEvent asks _get_page_pixmap for
PaintedPages ==
    LET r == _visible_page_range(page_offsets, vbar)
    IN  { i \in r[1] .. (Min(r[2], Len(page_rects)) - 1) : ~Offscreen(i) }

\* the entries of the high-res cache for page i, oldest first
Candidates(i) == SelectSeq(render_cache, LAMBDA e : e.key.page = i)

\* a fallback that does not look at _is_zooming
PagePixmapAnyTime(i) ==
    LET key == Key(i, zoom)
    IN  IF ODHas(render_cache, key)
        THEN << render_cache[ODIndex(render_cache, key)].img >>
        ELSE IF ODHas(low_res_cache, key)
        THEN << low_res_cache[ODIndex(low_res_cache, key)].img >>
        ELSE IF Candidates(i) # <<>>
        THEN << Candidates(i)[Len(Candidates(i))].img >>
        ELSE <<>>

\* PDFViewWidget._get_page_pixmap: the pixmap it returns for page i, <<>>
\* for None. The scaling to the target size changes no pixel's source.
PagePixmap(i) ==
    LET key == Key(i, zoom)
    IN  IF ODHas(render_cache, key)
        THEN << render_cache[ODIndex(render_cache, key)].img >>
        ELSE IF ODHas(low_res_cache, key)
        THEN << low_res_cache[ODIndex(low_res_cache, key)].img >>
        ELSE IF is_zooming /\ Candidates(i) # <<>>
        THEN << Candidates(i)[Len(Candidates(i))].img >>
        ELSE <<>>

\* the user moves the scroll bar to v: PDFScrollView._on_scroll
_on_scroll(v) ==
    /\ setValue(v, zoom) # vbar
    /\ vbar' = setValue(v, zoom)
    /\ Leave(SetScroll(Now, setValue(v, zoom), page_offsets, zoom))
    /\ Hist(0, 0)
    /\ UNCHANGED <<zoom, visual_zoom, zoom_target, is_zooming, zoom_timer,
                   settle_timer, lerp_timer, gesture, layout_vars, doc_vars,
                   low_res_cache, signals, commits, use_low, delivery, mode_vars, annot_vars,
                   host_vars, bound_vars, calc_vars>>

\* PDFViewWidget._is_render_valid for the zoom a worker captured
_is_render_valid(z) == Abs(zoom - z) < ZOOM_EPS

\* a worker that renders from the widget's live document
WorkerSourceLive(w) == doc[1]

\* what fitz.open gives worker w: the captured bytes, else the file at the
\* captured path as it is on disk when the worker opens it
WorkerSource(w) ==
    IF w.doc_bytes # <<>> THEN w.doc_bytes[1] ELSE FileAt(w.file_path)

\* the image a worker renders from its own document
Render(w, high) ==
    [content |-> w.src[1], page |-> w.page, zoom |-> w.zoom, high |-> high]

\* the finished signal of worker t, queued to the main thread
Emit(t, high) ==
    Append(signals, [task |-> t, high |-> high, page |-> tasks[t].page,
                     key |-> tasks[t].key, img |-> Render(tasks[t], high),
                     sched |-> tasks[t].sched, stale |-> tasks[t].stale])

\* the frame of a step of a worker thread
WorkerFrame ==
    /\ UNCHANGED <<zoom_vars, layout_vars, doc_vars, cache_vars, pending_renders,
                   commits, lru_vars, mode_vars, annot_vars,
                   host_vars, bound_vars, calc_vars>>
    /\ UNCHANGED <<n_wheel, n_lerp>>

\* RenderWorker.run: the first validity check and fitz.open
worker_open(t, ok) ==
    /\ t \in 1..Len(tasks)
    /\ tasks[t].pc = "queued"
    /\ tasks' = [tasks EXCEPT ![t] =
                   IF _is_render_valid(tasks[t].zoom) /\ ok
                   THEN [@ EXCEPT !.pc = "low", !.src = << WorkerSource(tasks[t]) >>]
                   ELSE Idle]
    /\ UNCHANGED signals
    /\ WorkerFrame

\* RenderWorker.run: the fast pass; ok is FALSE when rendering raises
worker_low(t, ok) ==
    /\ t \in 1..Len(tasks)
    /\ tasks[t].pc = "low"
    /\ tasks' = [tasks EXCEPT ![t].pc = "check"]
    /\ signals' = IF ok THEN Emit(t, FALSE) ELSE signals
    /\ WorkerFrame

\* RenderWorker.run: the validity check between the passes
worker_check(t) ==
    /\ t \in 1..Len(tasks)
    /\ tasks[t].pc = "check"
    /\ tasks' = [tasks EXCEPT ![t] =
                   IF _is_render_valid(tasks[t].zoom)
                   THEN [@ EXCEPT !.pc = "high"]
                   ELSE Idle]
    /\ UNCHANGED signals
    /\ WorkerFrame

\* RenderWorker.run: the high-res pass, then doc.close() and the return
worker_high(t, ok) ==
    /\ t \in 1..Len(tasks)
    /\ tasks[t].pc = "high"
    /\ tasks' = [tasks EXCEPT ![t] = Idle]
    /\ signals' = IF ok THEN Emit(t, TRUE) ELSE signals
    /\ WorkerFrame

\* while len(od) > cap: od.popitem(last=False), with the recency order use:
\* the trimmed dictionary, the order, and a log of [key, lru] per eviction
RECURSIVE Evict(_, _, _, _)
Evict(od, use, cap, log) ==
    IF Len(od) > cap
    THEN Evict(Tail(od), Forget(use, Head(od).key), cap,
               Append(log, [key |-> Head(od).key, lru |-> Head(use)]))
    ELSE [od |-> od, use |-> use, log |-> log]

\* a delivery that takes every result for current
AnyKey(key, page_index) == TRUE

\* _on_render_finished: key == (page_index, round(self._zoom, 3))
IsCurrentKey(key, page_index) == key = Key(page_index, zoom)

\* PDFViewWidget._on_render_finished: the oldest queued signal is delivered
_on_render_finished ==
    /\ signals # <<>>
    /\ signals' = Tail(signals)
    /\ LET s == Head(signals)
           key == s.key
           high == Evict(ODMoveToEnd(ODSet(render_cache, key, s.img), key),
                         Touch(use_high, key), HIGH_RES_CAP, <<>>)
           low == Evict(ODSet(low_res_cache, key, s.img),
                        Touch(use_low, key), LOW_RES_CAP, <<>>)
           seen == [key |-> key, high |-> s.high, stale |-> s.stale,
                    inserted |-> FALSE, evicted |-> <<>>]
       IN  /\ pending_renders' = IF s.high THEN pending_renders \ {key}
                                 ELSE pending_renders
           /\ IF ~IsCurrentKey(key, s.page)
              THEN /\ UNCHANGED <<cache_vars, use_high, use_low>>
                   /\ delivery' = << seen >>
              ELSE IF s.high
              THEN /\ render_cache' = high.od
                   /\ use_high' = high.use
                   /\ low_res_cache' = ODDel(low_res_cache, key)
                   /\ use_low' = Forget(use_low, key)
                   /\ delivery' = << [seen EXCEPT !.inserted = TRUE,
                                                  !.evicted = high.log] >>
              ELSE /\ low_res_cache' = low.od
                   /\ use_low' = low.use
                   /\ delivery' = << [seen EXCEPT !.inserted = TRUE,
                                                  !.evicted = low.log] >>
                   /\ UNCHANGED <<render_cache, use_high>>
    /\ Hist(0, 0)
    /\ UNCHANGED <<zoom_vars, layout_vars, doc_vars, tasks, commits, mode_vars,
                   annot_vars, host_vars, bound_vars, calc_vars>>

\* -------------------------------------------------------------- mutations
\* an invalidation that reaches only the entry of the page at zoom 1.0
InvalidateOneZoom(od, p) == SelectSeq(od, LAMBDA e : e.key # Key(p, ZOOM_UNIT))

\* PDFViewWidget._invalidate_page on a cache and on its recency order
InvalidateOD(od, p) == SelectSeq(od, LAMBDA e : e.key.page # p)
InvalidateUse(use, p) == SelectSeq(use, LAMBDA k : k.page # p)

\* PDFViewWidget._invalidate_page(page_index)
_invalidate_page(p) ==
    /\ render_cache' = InvalidateOD(render_cache, p)
    /\ low_res_cache' = InvalidateOD(low_res_cache, p)
    /\ use_high' = InvalidateUse(use_high, p)
    /\ use_low' = InvalidateUse(use_low, p)

\* PDFViewWidget._snapshot_doc_bytes for the document content d; ok is FALSE
\* when tobytes() raises
_snapshot_doc_bytes(d, ok) ==
    doc_bytes_snapshot' = IF ok THEN << d >> ELSE doc_bytes_snapshot

\* the annotation page.add_freetext_annot creates; its xref id is new
NewAnnot(id, text) == [id |-> id, rect |-> 0, text |-> text]

\* the annotations of page 0 of a file as it is opened
FileAnnots == << NewAnnot(0, "note") >>

\* PDFViewWidget.add_text_at_page_center(page_index, config): an annotation
\* is added to page p of the live document
add_text_at_page_center(p, ok) ==
    /\ doc # <<>>
    /\ p < Len(page_rects)
    /\ doc' = << [doc[1] EXCEPT !.rev = @ + 1] >>
    /\ annots' = IF p = 0 THEN Append(annots, NewAnnot(doc[1].rev + 1, "text"))
                 ELSE annots
    /\ selected_annot' = << doc[1].rev + 1 >>
    /\ _invalidate_page(p)
    /\ _snapshot_doc_bytes([doc[1] EXCEPT !.rev = @ + 1], ok)
    /\ Hist(0, 0)
    /\ UNCHANGED <<zoom_vars, layout_vars, file_path, file_content,
                   pending_renders, task_vars, commits, delivery, mode_vars,
                   overlay_stamps, drag, stamps_placed, released, host_vars, bound_vars, calc_vars>>

\* PDFViewWidget.set_document(doc) without a file path, for a document whose
\* pages have the sizes d; d = <<>> stands for set_document(None). The new
\* height of the widget clamps the scroll bar; no render task can start,
\* because the widget then has neither a path nor a snapshot.
set_document(d) ==
    /\ doc' = IF d = <<>> THEN <<>>
              ELSE << [rev |-> 0, text |-> << "a" >>, text2 |-> << "c" >>] >>
    /\ file_path' = ""
    /\ doc_bytes_snapshot' = <<>>
    /\ render_cache' = <<>>
    /\ low_res_cache' = <<>>
    /\ use_high' = <<>>
    /\ use_low' = <<>>
    /\ page_rects' = d
    /\ page_offsets' = _recalculate_layout(d, zoom).offsets
    /\ page_heights' = _recalculate_layout(d, zoom).heights
    /\ vbar' = Max(0, Min(vbar, Max(0, TotalHeight(d, zoom) - VIEWPORT_H)))
    /\ annots' = IF d = <<>> THEN <<>> ELSE FileAnnots
    /\ selected_annot' = <<>>
    /\ overlay_stamps' = <<>>
    /\ Hist(0, 0)
    /\ UNCHANGED <<zoom, visual_zoom, zoom_target, is_zooming, zoom_timer,
                   settle_timer, lerp_timer, gesture, file_content,
                   pending_renders, task_vars, commits, delivery, mode_vars,
                   drag, stamps_placed, released,
                   host_vars, bound_vars, calc_vars>>

\* PDFViewWidget.set_document(doc, file_path) for the document of the file
\* at OTHER_PATH, whose pages have the sizes d, as MainWindow calls it when
\* another tab is shown
set_document_path(d) ==
    /\ doc' = << OtherOpened >>
    /\ file_path' = OTHER_PATH
    /\ doc_bytes_snapshot' = <<>>
    /\ render_cache' = <<>>
    /\ low_res_cache' = <<>>
    /\ use_high' = <<>>
    /\ use_low' = <<>>
    /\ page_rects' = d
    /\ page_offsets' = _recalculate_layout(d, zoom).offsets
    /\ page_heights' = _recalculate_layout(d, zoom).heights
    /\ vbar' = Max(0, Min(vbar, Max(0, TotalHeight(d, zoom) - VIEWPORT_H)))
    /\ annots' = FileAnnots
    /\ selected_annot' = <<>>
    /\ overlay_stamps' = <<>>
    /\ Hist(0, 0)
    /\ UNCHANGED <<zoom, visual_zoom, zoom_target, is_zooming, zoom_timer,
                   settle_timer, lerp_timer, gesture, file_content,
                   pending_renders, task_vars, commits, delivery, mode_vars,
                   drag, stamps_placed, released,
                   host_vars, bound_vars, calc_vars>>

\* MainWindow._on_tab_changed when the tab of the document the widget last
\* showed is shown again: set_document(tab.document, tab.file_path) with the
\* live document of the tab, as it was left
_on_tab_changed ==
    /\ doc # <<>>
    /\ doc_bytes_snapshot' = <<>>
    /\ render_cache' = <<>>
    /\ low_res_cache' = <<>>
    /\ use_high' = <<>>
    /\ use_low' = <<>>
    /\ page_offsets' = _recalculate_layout(page_rects, zoom).offsets
    /\ page_heights' = _recalculate_layout(page_rects, zoom).heights
    /\ vbar' = Max(0, Min(vbar, Max(0, TotalHeight(page_rects, zoom) - VIEWPORT_H)))
    /\ selected_annot' = <<>>
    /\ overlay_stamps' = <<>>
    /\ Hist(0, 0)
    /\ UNCHANGED <<zoom, visual_zoom, zoom_target, is_zooming, zoom_timer,
                   settle_timer, lerp_timer, gesture, page_rects, doc,
                   file_path, file_content, annots,
                   pending_renders, task_vars, commits, delivery, mode_vars,
                   drag, stamps_placed, released,
                   host_vars, bound_vars, calc_vars>>

\* PDFViewWidget.invalidate_all_pages
invalidate_all_pages ==
    /\ render_cache' = <<>>
    /\ use_high' = <<>>
    /\ Hist(0, 0)
    /\ UNCHANGED <<zoom_vars, layout_vars, doc_vars, low_res_cache, use_low,
                   pending_renders, task_vars, commits, delivery, mode_vars,
                   annot_vars, host_vars, bound_vars, calc_vars>>

\* MainWindow._on_doc_changed after a structural change of the open file
\* that keeps the page sizes (a rotation by 180 degrees): the snapshot is
\* taken, set_document(doc, file_path, keep_snapshot=True) clears both
\* caches and lays the pages out again, and invalidate_all_pages follows
_on_doc_changed(ok) ==
    /\ doc # <<>>
    /\ doc' = << [doc[1] EXCEPT !.rev = @ + 1] >>
    /\ _snapshot_doc_bytes([doc[1] EXCEPT !.rev = @ + 1], ok)
    /\ render_cache' = <<>>
    /\ low_res_cache' = <<>>
    /\ use_high' = <<>>
    /\ use_low' = <<>>
    /\ page_offsets' = _recalculate_layout(page_rects, zoom).offsets
    /\ page_heights' = _recalculate_layout(page_rects, zoom).heights
    /\ selected_annot' = <<>>
    /\ overlay_stamps' = <<>>
    /\ Hist(0, 0)
    /\ UNCHANGED <<zoom_vars, page_rects, file_path, file_content,
                   pending_renders, task_vars, commits, delivery, mode_vars,
                   annots, drag, stamps_placed,
                   released, host_vars, bound_vars, calc_vars>>

\* --------------------------------------------------- modes and text edits
MODE_NORMAL == "normal"
MODE_TEXT_PLACEMENT == "text_placement"
MODE_CROP == "crop"
MODE_TEXT_EDIT == "text_edit"

\* str.strip() on a text, a sequence of characters
RECURSIVE LStrip(_)
LStrip(s) == IF s # <<>> /\ Head(s) = " " THEN LStrip(Tail(s)) ELSE s
RECURSIVE RStrip(_)
RStrip(s) ==
    IF s # <<>> /\ s[Len(s)] = " " THEN RStrip(SubSeq(s, 1, Len(s) - 1)) ELSE s
Strip(s) == RStrip(LStrip(s))

\* what the user can leave in the editor: nothing, a blank, the old text,
\* another text, and that text after a blank
TypedTexts == { <<>>, << " " >>, << "a" >>, << "b" >>, << " ", "b" >> }

\* how the try block of _commit_text_edit ends: the text is inserted, or the
\* engine raises before the covering rectangle is drawn, or after it
CommitOutcomes == { "inserted", "raised_before_cover", "raised_after_cover" }

\* the variables the mode handlers leave alone
ModeFrame ==
    UNCHANGED <<zoom_vars, layout_vars, file_path, file_content, pending_renders,
                task_vars, hist_vars, delivery, annots, overlay_stamps, drag,
                stamps_placed, released, bound_vars, calc_vars>>

\* the live document after one more change
Changed(d) == [d EXCEPT !.rev = @ + 1]

\* the text lines of page 0, and the text the document d shows for line l
Lines == {1, 2}
ShownText(d, l) == IF l = 1 THEN d[1].text ELSE d[1].text2
\* the document content c with the text t for line l
WithText(c, l, t) == IF l = 1 THEN [c EXCEPT !.text = t] ELSE [c EXCEPT !.text2 = t]

\* the queued commits after the open editor, if there is one, was hidden:
\* the editor has the focus, hide() takes it away, and the focus-out handler
\* that _begin_text_edit installed queues QTimer.singleShot(0,
\* self._commit_text_edit). by is the method that hides the editor,
\* _cancel_text_edit or _commit_text_edit; the queue holds at most
\* MaxPending commits
AfterHide(by) ==
    IF text_edit_widget = <<>> \/ Len(focus_out_commits) >= MaxPending
    THEN focus_out_commits
    ELSE Append(focus_out_commits, by)

\* the open editor is dropped without a commit
ClosePendingDiscarding(by, outcome) ==
    UNCHANGED <<doc, doc_bytes_snapshot, cache_vars, use_high, use_low,
                closed_edit>>

\* `if self._text_edit_widget: self._commit_text_edit()`, as called by the
\* handler named by: its effect on the document, the snapshot and the
\* caches. The caller says what becomes of _text_edit_widget. A text that is
\* unchanged or blank after strip() is dropped; a page with a covering
\* rectangle and no new text shows the empty text.
ClosePending(by, outcome) ==
    IF text_edit_widget = <<>>
    THEN UNCHANGED <<doc, doc_bytes_snapshot, cache_vars, use_high, use_low,
                     closed_edit>>
    ELSE LET w == text_edit_widget[1]
             dropped == \/ w.text = w.old_text
                        \/ Strip(w.text) = <<>>
                        \/ doc = <<>>
                        \/ w.page >= Len(page_rects)
             d1 == CASE outcome = "inserted" ->
                          WithText(Changed(doc[1]), w.line, w.text)
                     [] outcome = "raised_after_cover" ->
                          WithText(Changed(doc[1]), w.line, <<>>)
                     [] OTHER -> doc[1]
         IN  /\ closed_edit' = << [by |-> by, line |-> w.line,
                                   old_text |-> w.old_text,
                                   text |-> w.text,
                                   outcome |-> IF dropped THEN "dropped"
                                               ELSE outcome] >>
             /\ IF dropped
                THEN UNCHANGED <<doc, doc_bytes_snapshot, cache_vars, use_high,
                                 use_low>>
                ELSE /\ doc' = << d1 >>
                     /\ \E ok \in BOOLEAN : _snapshot_doc_bytes(d1, ok)
                     /\ _invalidate_page(w.page)

\* the configurations of the host's text panel, the positions of the mouse
\* in a crop drag (0 is the origin of the widget), and the crop callback of the host's table extraction
TextConfigs == { "helv", "malgun" }
Positions == { 0, 10 }
TableCallback == "_do_table_extract"

\* the commit of the open editor would change the document
CommitApplies ==
    /\ text_edit_widget # <<>>
    /\ text_edit_widget[1].text # text_edit_widget[1].old_text
    /\ Strip(text_edit_widget[1].text) # <<>>
    /\ doc # <<>>
    /\ text_edit_widget[1].page < Len(page_rects)

\* _text_edit_lines_cache after `if self._text_edit_widget:
\* self._commit_text_edit()`: an applied commit deletes the lines of its page
LinesAfterCommit ==
    IF CommitApplies THEN text_edit_lines_cache \ { text_edit_widget[1].page }
    ELSE text_edit_lines_cache

\* a cleanup that leaves the pending text config where it is
KeptConfig == pending_text_config

\* pending_text_config and _crop_callback after _exit_current_mode
ExitedConfig == IF mode = MODE_TEXT_PLACEMENT THEN <<>> ELSE pending_text_config
ExitedCallback == IF mode = MODE_CROP THEN <<>> ELSE crop_callback

\* a mode change that leaves an open editor open
_exit_current_mode_keeping(by, outcome) ==
    UNCHANGED <<doc, doc_bytes_snapshot, cache_vars, use_high, use_low,
                closed_edit, focus_out_commits, text_edit_widget, te_vars, crop_start_pos,
                crop_current_pos>>

\* PDFViewWidget._exit_current_mode, up to its assignment to mode, which
\* the assignment of the caller follows; the caller assigns
\* pending_text_config and _crop_callback, from ExitedConfig and
\* ExitedCallback or anew
_exit_current_mode(by, outcome) ==
    /\ IF mode = MODE_TEXT_EDIT
       THEN /\ ClosePending(by, outcome)
            /\ focus_out_commits' = AfterHide("_commit_text_edit")
            /\ text_edit_widget' = <<>>
            /\ text_edit_lines_cache' = {}
            /\ text_edit_hover_line' = <<>>
            /\ text_edit_hover_page' = -1
       ELSE UNCHANGED <<doc, doc_bytes_snapshot, cache_vars, use_high, use_low,
                        closed_edit, focus_out_commits, text_edit_widget, te_vars>>
    /\ IF mode = MODE_CROP
       THEN crop_start_pos' = <<>> /\ crop_current_pos' = <<>>
       ELSE UNCHANGED <<crop_start_pos, crop_current_pos>>

\* PDFViewWidget.enter_text_edit_mode; its clear() of the line cache finds
\* the cache empty, since only text edit mode fills it and every way out of
\* that mode clears it
enter_text_edit_mode(outcome) ==
    /\ _exit_current_mode("enter_text_edit_mode", outcome)
    /\ text_edit_lines_cache' = {}
    /\ pending_text_config' = ExitedConfig
    /\ crop_callback' = ExitedCallback
    /\ UNCHANGED crop_release
    /\ mode' = MODE_TEXT_EDIT
    /\ selected_annot' = <<>>
    /\ UNCHANGED host_vars
    /\ ModeFrame

\* PDFViewWidget.exit_text_edit_mode
exit_text_edit_mode(outcome) ==
    /\ ClosePending("exit_text_edit_mode", outcome)
    /\ focus_out_commits' = AfterHide("_commit_text_edit")
    /\ text_edit_widget' = <<>>
    /\ mode' = MODE_NORMAL
    /\ text_edit_lines_cache' = {}
    /\ text_edit_hover_line' = <<>>
    /\ text_edit_hover_page' = -1
    /\ UNCHANGED <<pending_text_config, crop_vars>>
    /\ UNCHANGED selected_annot
    /\ UNCHANGED host_vars
    /\ ModeFrame

\* PDFViewWidget.enter_text_placement_mode
enter_text_placement_mode(outcome, config) ==
    /\ _exit_current_mode("enter_text_placement_mode", outcome)
    /\ pending_text_config' = << config >>
    /\ crop_callback' = ExitedCallback
    /\ UNCHANGED crop_release
    /\ mode' = MODE_TEXT_PLACEMENT
    /\ selected_annot' = <<>>
    /\ UNCHANGED host_vars
    /\ ModeFrame

\* PDFViewWidget.exit_text_placement_mode. The handlers of the host's text
\* panel call it; the host closes that panel before it enters text edit mode.
exit_text_placement_mode ==
    /\ mode # MODE_TEXT_EDIT
    /\ mode' = MODE_NORMAL
    /\ UNCHANGED <<doc, doc_bytes_snapshot, cache_vars, use_high, use_low,
                   closed_edit, focus_out_commits, text_edit_widget, te_vars, pending_text_config,
                   crop_vars>>
    /\ UNCHANGED selected_annot
    /\ UNCHANGED host_vars
    /\ ModeFrame

\* PDFViewWidget.enter_crop_mode(callback), which the host calls with
\* _do_table_extract
enter_crop_mode(outcome) ==
    /\ _exit_current_mode("enter_crop_mode", outcome)
    /\ pending_text_config' = ExitedConfig
    /\ crop_callback' = << TableCallback >>
    /\ UNCHANGED crop_release
    /\ mode' = MODE_CROP
    /\ selected_annot' = <<>>
    /\ ModeFrame

\* `if self._crop_start_pos:` for a field that is None or a QPointF: a point
\* is true unless it is the null point, both coordinates 0.0, which is the
\* origin of the widget
PointSet(p) == p # <<>> /\ p[1] # 0

\* PDFViewWidget.mousePressEvent in crop mode
mousePressCrop(pos) ==
    /\ mode = MODE_CROP
    /\ crop_start_pos' = << pos >>
    /\ crop_current_pos' = << pos >>
    /\ UNCHANGED <<mode, doc, doc_bytes_snapshot, cache_vars, use_high, use_low,
                   closed_edit, focus_out_commits, text_edit_widget, te_vars, pending_text_config,
                   crop_callback, crop_release>>
    /\ UNCHANGED selected_annot
    /\ UNCHANGED host_vars
    /\ ModeFrame

\* PDFViewWidget.mouseMoveEvent in crop mode
mouseMoveCrop(pos) ==
    /\ mode = MODE_CROP
    /\ crop_current_pos' = IF PointSet(crop_start_pos) THEN << pos >> ELSE crop_current_pos
    /\ UNCHANGED <<mode, doc, doc_bytes_snapshot, cache_vars, use_high, use_low,
                   closed_edit, focus_out_commits, text_edit_widget, te_vars, pending_text_config,
                   crop_start_pos, crop_callback, crop_release>>
    /\ UNCHANGED selected_annot
    /\ UNCHANGED host_vars
    /\ ModeFrame

\* QThread.isRunning() of a worker field of the host
IsRunning(worker) == worker # <<>> /\ worker[1].running

\* the record of a request for a background task of the category: whether a
\* task of the category was outstanding, and whether the request was
\* rejected (the status bar says that a task is in progress, and the handler
\* returns)
Requested(category, by, worker, rejected) ==
    << [category |-> category, by |-> by, outstanding |-> IsRunning(worker),
        rejected |-> rejected] >>

\* MainWindow._do_table_extract(page_index, rect), the crop callback; ok is
\* FALSE when the clip cannot be rendered. _stop_worker ends the worker that
\* is in _ai_task_worker, and the new worker takes its place.
_do_table_extract(ok) ==
    /\ IF ok
       THEN /\ ai_task_worker' = << [task |-> "extract_table", running |-> TRUE] >>
            /\ request' = Requested("ai", "_do_table_extract", ai_task_worker, FALSE)
       ELSE UNCHANGED <<ai_task_worker, request>>
    /\ UNCHANGED <<ocr_worker, save_worker, enabled>>

\* PDFViewWidget.mouseReleaseEvent in the crop mode, after a press and with
\* no annotation drag open. The crop branch sets the mode to normal whatever
\* the size of the rectangle, the callback stays, and a rectangle of more
\* than 10 by 10 pixels (big) is given to the callback. When the start point
\* tests false, no branch of the handler is taken.
mouseReleaseEvent(big, ok) ==
    /\ mode = MODE_CROP /\ crop_start_pos # <<>>
    /\ IF PointSet(crop_start_pos)
       THEN /\ crop_start_pos' = <<>>
            /\ crop_current_pos' = <<>>
            /\ mode' = MODE_NORMAL
            /\ IF big /\ crop_callback # <<>>
               THEN _do_table_extract(ok)
               ELSE ok /\ UNCHANGED host_vars
            /\ crop_release' = << [big |-> big,
                                   calls |-> IF big /\ crop_callback # <<>>
                                             THEN 1 ELSE 0] >>
       ELSE /\ drag = <<>>
            /\ ok
            /\ crop_release' = << [big |-> big, calls |-> 0] >>
            /\ UNCHANGED <<mode, crop_start_pos, crop_current_pos, host_vars>>
    /\ UNCHANGED <<doc, doc_bytes_snapshot, cache_vars, use_high, use_low,
                   closed_edit, focus_out_commits, text_edit_widget, te_vars, pending_text_config,
                   crop_callback>>
    /\ UNCHANGED selected_annot
    /\ ModeFrame

\* the host's _clear_right_panel and _toggle_text_edit_mode: a call of
\* _exit_current_mode from outside
_clear_right_panel(outcome) ==
    /\ _exit_current_mode("_clear_right_panel", outcome)
    /\ pending_text_config' = ExitedConfig
    /\ crop_callback' = ExitedCallback
    /\ UNCHANGED crop_release
    /\ mode' = MODE_NORMAL
    /\ UNCHANGED selected_annot
    /\ UNCHANGED host_vars
    /\ ModeFrame

\* PDFViewWidget._handle_text_edit_hover in text edit mode: the mouse is
\* over page 0 or beside the pages, and over the text line or not
_handle_text_edit_hover(on_page, on_line) ==
    /\ mode = MODE_TEXT_EDIT
    /\ IF doc = <<>> \/ page_offsets = <<>>
       THEN UNCHANGED te_vars
       ELSE IF ~on_page
       THEN /\ text_edit_hover_line' = <<>>
            /\ text_edit_hover_page' = -1
            /\ UNCHANGED text_edit_lines_cache
       ELSE /\ text_edit_lines_cache' = text_edit_lines_cache \cup { 0 }
            /\ text_edit_hover_line' =
                  IF on_line /\ doc[1].text # <<>> THEN << doc[1].text >> ELSE <<>>
            /\ text_edit_hover_page' = 0
    /\ UNCHANGED <<mode, doc, doc_bytes_snapshot, cache_vars, use_high, use_low,
                   closed_edit, focus_out_commits, text_edit_widget, pending_text_config, crop_vars>>
    /\ UNCHANGED selected_annot
    /\ UNCHANGED host_vars
    /\ ModeFrame

\* PDFViewWidget._handle_text_edit_click in text edit mode: an open editor
\* is committed; if the click hits a text line of page 0 (hit is the line,
\* or 0), _begin_text_edit opens an editor on the text the page then shows
\* for the line
_handle_text_edit_click(hit, outcome) ==
    /\ mode = MODE_TEXT_EDIT
    /\ ClosePending("_handle_text_edit_click", outcome)
    /\ focus_out_commits' = AfterHide("_commit_text_edit")
    /\ text_edit_widget' =
          IF hit \in Lines /\ doc # <<>> /\ page_offsets # <<>>
             /\ ShownText(doc', hit) # <<>>
          THEN << [page |-> 0, line |-> hit, old_text |-> ShownText(doc', hit),
                   text |-> ShownText(doc', hit)] >>
          ELSE <<>>
    /\ text_edit_lines_cache' =
          IF doc # <<>> /\ page_offsets # <<>> THEN LinesAfterCommit \cup { 0 }
          ELSE LinesAfterCommit
    /\ UNCHANGED <<mode, text_edit_hover_line, text_edit_hover_page,
                   pending_text_config, crop_vars>>
    /\ UNCHANGED selected_annot
    /\ UNCHANGED host_vars
    /\ ModeFrame

\* the user changes the text in the open editor to t
edit_text(t) ==
    /\ text_edit_widget # <<>>
    /\ t # text_edit_widget[1].text
    /\ text_edit_widget' = << [text_edit_widget[1] EXCEPT !.text = t] >>
    /\ UNCHANGED <<mode, doc, doc_bytes_snapshot, cache_vars, use_high, use_low,
                   closed_edit, focus_out_commits, te_vars, pending_text_config, crop_vars>>
    /\ UNCHANGED selected_annot
    /\ UNCHANGED host_vars
    /\ ModeFrame

\* PDFViewWidget._commit_text_edit on Return or after the editor lost focus
_commit_text_edit(outcome) ==
    /\ text_edit_widget # <<>>
    /\ ClosePending("_commit_text_edit", outcome)
    /\ focus_out_commits' = AfterHide("_commit_text_edit")
    /\ text_edit_widget' = <<>>
    /\ text_edit_lines_cache' = LinesAfterCommit
    /\ UNCHANGED <<mode, text_edit_hover_line, text_edit_hover_page,
                   pending_text_config, crop_vars>>
    /\ UNCHANGED selected_annot
    /\ UNCHANGED host_vars
    /\ ModeFrame

\* PDFViewWidget._cancel_text_edit on Escape
_cancel_text_edit ==
    /\ text_edit_widget # <<>>
    /\ text_edit_widget' = <<>>
    /\ focus_out_commits' = AfterHide("_cancel_text_edit")
    /\ UNCHANGED <<mode, doc, doc_bytes_snapshot, cache_vars, use_high, use_low,
                   closed_edit, te_vars, pending_text_config, crop_vars>>
    /\ UNCHANGED selected_annot
    /\ UNCHANGED host_vars
    /\ ModeFrame

\* a commit that a focus-out handler queued runs: _commit_text_edit, which
\* returns at once when no editor is open, and commits the editor that is
\* open now otherwise; hiding that editor queues the next commit
focus_out_commit(outcome) ==
    /\ focus_out_commits # <<>>
    /\ ClosePending("focus_out", outcome)
    /\ text_edit_widget = <<>> => outcome = "inserted"
    /\ focus_out_commits' =
          IF text_edit_widget = <<>> THEN Tail(focus_out_commits)
          ELSE Append(Tail(focus_out_commits), "_commit_text_edit")
    /\ text_edit_widget' = <<>>
    /\ text_edit_lines_cache' = LinesAfterCommit
    /\ UNCHANGED <<mode, text_edit_hover_line, text_edit_hover_page,
                   pending_text_config, crop_vars>>
    /\ UNCHANGED selected_annot
    /\ UNCHANGED host_vars
    /\ ModeFrame

\* ------------------------------------------------- fractions
\* page coordinates are fractions <<numerator, denominator>> with a positive
\* denominator: the handlers divide by the zoom and by the aspect ratio
Frac(n) == <<n, 1>>
RECURSIVE Gcd(_, _)
Gcd(a, b) == IF b = 0 THEN a ELSE Gcd(b, a % b)
\* the fraction in lowest terms
Lowest(a) ==
    LET g == Gcd(Abs(a[1]), a[2])
    IN  <<a[1] \div g, a[2] \div g>>
FracEq(a, b) == a[1] * b[2] = b[1] * a[2]
FracLess(a, b) == a[1] * b[2] < b[1] * a[2]
FracMax(a, b) == IF FracLess(a, b) THEN b ELSE a
FracAdd(a, b) == Lowest(<<a[1] * b[2] + b[1] * a[2], a[2] * b[2]>>)
FracSub(a, b) == Lowest(<<a[1] * b[2] - b[1] * a[2], a[2] * b[2]>>)
FracMul(a, b) == Lowest(<<a[1] * b[1], a[2] * b[2]>>)
\* a / b for a positive b
FracDiv(a, b) == Lowest(<<a[1] * b[2], a[2] * b[1]>>)
FracAbs(a) == <<Abs(a[1]), a[2]>>

\* ------------------------------------------------ annotations and stamps
\* the rectangles an annotation or a stamp can have
Rects == {0, 1}

\* the outcomes of the PDF engine's calls in one handler: all succeed, or
\* the named call raises
EngineOutcomes == {"ok", "delete_raises", "add_raises", "update_raises"}

HasItem(items, id) == \E i \in 1..Len(items) : items[i].id = id
ItemOf(items, id) == items[CHOOSE i \in 1..Len(items) : items[i].id = id]
Without(items, id) == SelectSeq(items, LAMBDA a : a.id # id)
SetRect(items, id, r) ==
    [i \in 1..Len(items) |->
        IF items[i].id = id THEN [items[i] EXCEPT !.rect = r] ELSE items[i]]

\* `for s in self._overlay_stamps: s["selected"] = False`
StampsCleared(st) == [i \in 1..Len(st) |-> [st[i] EXCEPT !.selected = FALSE]]
\* the same, followed by `hit.annot["selected"] = True`
StampsSelecting(st, id) ==
    [i \in 1..Len(st) |-> [st[i] EXCEPT !.selected = (st[i].id = id)]]

\* what _hit_test_annot returns at a position: nothing, or an annotation or
\* a stamp, at its body or at a corner handle
HitTargets ==
    {<<>>}
    \cup {<< [match_type |-> "annot", id |-> annots[i].id, corner |-> c] >> :
             i \in 1..Len(annots), c \in BOOLEAN}
    \cup {<< [match_type |-> "stamp", id |-> overlay_stamps[i].id, corner |-> c] >> :
             i \in 1..Len(overlay_stamps), c \in BOOLEAN}

\* the variables the annotation handlers leave alone
AnnotFrame ==
    UNCHANGED <<zoom_vars, layout_vars, file_path, file_content, pending_renders,
                task_vars, hist_vars, delivery, host_vars, bound_vars, calc_vars>>

\* the document, its snapshot and the caches are left alone
DocKept == UNCHANGED <<doc, doc_bytes_snapshot, cache_vars, use_high, use_low>>

\* PDFViewWidget.mousePressEvent with the left button in the normal mode
mousePressEvent(hit) ==
    /\ mode = MODE_NORMAL
    /\ hit \in HitTargets
    /\ IF hit = <<>>
       THEN /\ selected_annot' = <<>>
            /\ overlay_stamps' = StampsCleared(overlay_stamps)
            /\ UNCHANGED drag
       ELSE /\ IF hit[1].match_type = "annot"
               THEN /\ selected_annot' = << hit[1].id >>
                    /\ UNCHANGED overlay_stamps
               ELSE /\ selected_annot' = <<>>
                    /\ overlay_stamps' = StampsSelecting(overlay_stamps, hit[1].id)
            /\ drag' = << [match_type |-> hit[1].match_type, id |-> hit[1].id,
                           resizing |-> hit[1].corner, moved |-> FALSE] >>
    /\ UNCHANGED <<annots, stamps_placed, released, mode_vars>>
    /\ DocKept
    /\ AnnotFrame

\* PDFViewWidget.mouseMoveEvent while _drag_annot is set: the dragged item
\* gets the rectangle r; ok is FALSE when set_rect raises, which the handler
\* swallows. An annotation that is no longer on the page cannot be moved.
mouseMoveDrag(r, ok) ==
    /\ mode \in {MODE_NORMAL}
    /\ drag # <<>>
    /\ IF drag[1].match_type = "annot"
       THEN /\ annots' = IF ok THEN SetRect(annots, drag[1].id, r) ELSE annots
            /\ ok => HasItem(annots, drag[1].id)
            /\ UNCHANGED overlay_stamps
       ELSE /\ ok
            /\ overlay_stamps' = SetRect(overlay_stamps, drag[1].id, r)
            /\ UNCHANGED annots
    /\ drag' = << [drag[1] EXCEPT !.moved = TRUE] >>
    /\ UNCHANGED <<selected_annot, stamps_placed, released, mode_vars>>
    /\ DocKept
    /\ AnnotFrame

\* the release recreates a FreeText annotation that was dragged by a corner
Recreates == drag[1].match_type = "annot" /\ drag[1].resizing

\* the engine call that raises in the release, for the outcome
ReleaseRaises(outcome) ==
    /\ drag[1].match_type = "annot"
    /\ IF drag[1].resizing THEN outcome \in {"delete_raises", "add_raises"}
       ELSE outcome = "update_raises"

\* PDFViewWidget.mouseReleaseEvent while _drag_annot is set and no crop
\* rectangle is open. An exception of the engine leaves the handler at the
\* call that raised; snap is FALSE when tobytes() raises in the snapshot.
mouseReleaseDrag(outcome, snap) ==
    /\ ~(mode = MODE_CROP /\ PointSet(crop_start_pos))
    /\ drag # <<>>
    /\ doc # <<>>
    /\ outcome = "ok" \/ ReleaseRaises(outcome)
    /\ (drag[1].match_type = "annot" /\ ~HasItem(annots, drag[1].id))
          => outcome = IF drag[1].resizing THEN "delete_raises" ELSE "update_raises"
    /\ IF outcome # "ok"
       THEN /\ annots' = IF outcome = "add_raises"
                         THEN Without(annots, drag[1].id) ELSE annots
            /\ doc' = IF outcome = "add_raises" THEN << Changed(doc[1]) >> ELSE doc
            /\ released' = << [moved |-> drag[1].moved, emitted |-> FALSE,
                               outcome |-> outcome] >>
            /\ snap
            /\ UNCHANGED <<selected_annot, drag, doc_bytes_snapshot, cache_vars,
                           use_high, use_low>>
       ELSE /\ \E d1 \in {IF drag[1].match_type = "annot"
                             /\ (drag[1].moved \/ drag[1].resizing)
                          THEN Changed(doc[1]) ELSE doc[1]} :
                 /\ doc' = << d1 >>
                 /\ _snapshot_doc_bytes(d1, snap)
            /\ IF Recreates
               THEN /\ annots' = Append(Without(annots, drag[1].id),
                                        [ItemOf(annots, drag[1].id)
                                            EXCEPT !.id = doc[1].rev + 1])
                    /\ selected_annot' = << doc[1].rev + 1 >>
               ELSE UNCHANGED <<annots, selected_annot>>
            /\ _invalidate_page(0)
            /\ drag' = <<>>
            /\ released' = << [moved |-> drag[1].moved, emitted |-> TRUE,
                               outcome |-> outcome] >>
    /\ UNCHANGED <<overlay_stamps, stamps_placed, mode_vars>>
    /\ AnnotFrame

\* PDFViewWidget._delete_stamp(stamp)
_delete_stamp(id, snap) ==
    /\ overlay_stamps' = Without(overlay_stamps, id)
    /\ selected_annot' = <<>>
    /\ \E d1 \in {doc[1]} : _snapshot_doc_bytes(d1, snap)
    /\ UNCHANGED <<doc, cache_vars, use_high, use_low, annots>>

\* PDFViewWidget._delete_annot(annot, page_index); the exception of
\* delete_annot leaves the handler
_delete_annot(id, outcome, snap) ==
    /\ doc # <<>>
    /\ outcome \in {"ok", "delete_raises"}
    /\ IF outcome = "ok"
       THEN /\ annots' = Without(annots, id)
            /\ selected_annot' = <<>>
            /\ doc' = << Changed(doc[1]) >>
            /\ _invalidate_page(0)
            /\ _snapshot_doc_bytes(Changed(doc[1]), snap)
       ELSE /\ snap
            /\ UNCHANGED <<annots, selected_annot>>
            /\ DocKept
    /\ UNCHANGED overlay_stamps

\* PDFViewWidget._show_context_menu, on a right button press in the normal
\* mode, with the menu entry the user picks: "none" closes the menu
_show_context_menu(hit, entry, outcome, snap) ==
    /\ mode = MODE_NORMAL
    /\ hit \in HitTargets \ {<<>>}
    /\ doc # <<>>
    /\ IF hit[1].match_type = "stamp"
       THEN IF entry = "delete"
            THEN outcome = "ok" /\ _delete_stamp(hit[1].id, snap)
            ELSE /\ selected_annot' = <<>>
                 /\ overlay_stamps' = StampsSelecting(overlay_stamps, hit[1].id)
                 /\ outcome = "ok" /\ snap
                 /\ UNCHANGED annots
                 /\ DocKept
       ELSE IF entry = "delete"
            THEN _delete_annot(hit[1].id, outcome, snap)
            ELSE /\ selected_annot' = << hit[1].id >>
                 /\ outcome = "ok" /\ snap
                 /\ UNCHANGED <<overlay_stamps, annots>>
                 /\ DocKept
    /\ UNCHANGED <<drag, stamps_placed, released, mode_vars>>
    /\ AnnotFrame

\* the width of the widget, and PDFViewWidget._page_x_offset(page_index)
\* for the 0-based page
WIDGET_W == 800
_page_x_offset(page_index) ==
    IF page_rects = <<>> \/ page_index >= Len(page_rects) THEN 0
    ELSE LET pw == MulDiv(page_rects[page_index + 1].w, zoom, ZOOM_UNIT)
         IN  IF pw >= WIDGET_W - 20 THEN 10 ELSE (WIDGET_W - pw) \div 2

\* the test of _place_text_at that the click is within the bounds of the
\* page under it
ClickInPage(screen_pos) ==
    LET page_index == page_at_y(page_offsets, screen_pos[2])
        px == _page_x_offset(page_index)
        py == page_offsets[page_index + 1]
        pw == MulDiv(page_rects[page_index + 1].w, zoom, ZOOM_UNIT)
        ph == page_heights[page_index + 1]
    IN  /\ px <= screen_pos[1] /\ screen_pos[1] <= px + pw
        /\ py <= screen_pos[2] /\ screen_pos[2] <= py + ph

\* PDFViewWidget._screen_to_page_coords(screen_pos, page_index)
_screen_to_page_coords(screen_pos, page_index) ==
    [x |-> FracDiv(Frac((screen_pos[1] - _page_x_offset(page_index)) * ZOOM_UNIT),
                   Frac(zoom)),
     y |-> FracDiv(Frac((screen_pos[2] - page_offsets[page_index + 1]) * ZOOM_UNIT),
                   Frac(zoom))]

\* the font size of a configuration of the text panel, and the length of
\* the longest line and the number of lines of its text
ConfigFontSize(config) == IF config = "helv" THEN 14 ELSE 40
ConfigTextLen == 4
ConfigTextLines == 1

\* a rectangle of the same size with its top left corner at the click
CornerRect(page_pos, max_len, line_count, font_size) ==
    LET w == FracMax(FracMul(Frac(max_len * font_size), <<6, 10>>), Frac(60))
        h == FracAdd(FracMul(Frac(font_size * line_count), <<16, 10>>), Frac(10))
    IN  [x0 |-> page_pos.x, y0 |-> page_pos.y,
         x1 |-> FracAdd(page_pos.x, w), y1 |-> FracAdd(page_pos.y, h)]

\* the rectangle _place_text_at gives the annotation
PlacedRect(page_pos, max_len, line_count, font_size) ==
    LET w == FracMax(FracMul(Frac(max_len * font_size), <<6, 10>>), Frac(60))
        h == FracAdd(FracMul(Frac(font_size * line_count), <<16, 10>>), Frac(10))
    IN  [x0 |-> FracSub(page_pos.x, FracDiv(w, Frac(2))),
         y0 |-> FracSub(page_pos.y, FracDiv(h, Frac(2))),
         x1 |-> FracAdd(page_pos.x, FracDiv(w, Frac(2))),
         y1 |-> FracAdd(page_pos.y, FracDiv(h, Frac(2)))]

\* the variables a click in the text placement mode leaves alone
PlaceFrame ==
    UNCHANGED <<zoom_vars, layout_vars, file_path, file_content, pending_renders,
                task_vars, hist_vars, delivery, host_vars, bound_vars, args>>

\* PDFViewWidget.mousePressEvent in the text placement mode, which calls
\* _place_text_at(screen_pos). The method returns at once without a
\* document or for a click that is not within a page. result records the
\* click: whether an annotation was placed, and its rectangle.
_place_text_at(screen_pos, snap) ==
    /\ mode = MODE_TEXT_PLACEMENT
    /\ IF doc # <<>> /\ page_offsets # <<>> /\ ClickInPage(screen_pos)
       THEN /\ annots' = Append(annots, NewAnnot(doc[1].rev + 1, "text"))
            /\ doc' = << Changed(doc[1]) >>
            /\ _invalidate_page(0)
            /\ selected_annot' = << doc[1].rev + 1 >>
            /\ mode' = MODE_NORMAL
            /\ _snapshot_doc_bytes(Changed(doc[1]), snap)
            /\ result' =
                  << [screen_pos |-> screen_pos, placed |-> TRUE,
                      page_pos |-> _screen_to_page_coords(screen_pos,
                                      page_at_y(page_offsets, screen_pos[2])),
                      rect |-> PlacedRect(
                          _screen_to_page_coords(screen_pos,
                              page_at_y(page_offsets, screen_pos[2])),
                          ConfigTextLen, ConfigTextLines,
                          IF pending_text_config = <<>> THEN 14
                          ELSE ConfigFontSize(pending_text_config[1]))] >>
       ELSE /\ snap
            /\ result' = << [screen_pos |-> screen_pos, placed |-> FALSE] >>
            /\ UNCHANGED <<annots, selected_annot, mode>>
            /\ DocKept
    /\ UNCHANGED <<text_edit_widget, closed_edit, focus_out_commits, te_vars, pending_text_config,
                   crop_vars, overlay_stamps, drag, stamps_placed, released>>
    /\ PlaceFrame

\* PDFViewWidget.place_stamp_on_page(page_index, image_path) for page 0
place_stamp_on_page(snap) ==
    /\ doc # <<>>
    /\ Len(page_rects) > 0
    /\ overlay_stamps' = Append(overlay_stamps,
                                [id |-> stamps_placed + 1, rect |-> 0,
                                 selected |-> FALSE])
    /\ stamps_placed' = stamps_placed + 1
    /\ _snapshot_doc_bytes(doc[1], snap)
    /\ UNCHANGED <<doc, cache_vars, use_high, use_low, annots, selected_annot,
                   drag, released, mode_vars>>
    /\ AnnotFrame

\* PDFViewWidget.update_freetext_annot(annot, page_index, config), for the
\* annotation id of page 0 and the text of the config
update_freetext_annot(id, text, outcome, snap) ==
    /\ doc # <<>>
    /\ outcome \in {"ok", "delete_raises", "add_raises"}
    /\ ~HasItem(annots, id) => outcome = "delete_raises"
    /\ IF outcome = "ok"
       THEN /\ annots' = Append(Without(annots, id),
                                [id |-> doc[1].rev + 1,
                                 rect |-> ItemOf(annots, id).rect, text |-> text])
            /\ selected_annot' = << doc[1].rev + 1 >>
            /\ doc' = << Changed(doc[1]) >>
            /\ _invalidate_page(0)
            /\ _snapshot_doc_bytes(Changed(doc[1]), snap)
       ELSE /\ annots' = IF outcome = "add_raises" THEN Without(annots, id)
                         ELSE annots
            /\ doc' = IF outcome = "add_raises" THEN << Changed(doc[1]) >> ELSE doc
            /\ snap
            /\ UNCHANGED <<selected_annot, doc_bytes_snapshot, cache_vars,
                           use_high, use_low>>
    /\ UNCHANGED <<overlay_stamps, drag, stamps_placed, released, mode_vars>>
    /\ AnnotFrame

\* PDFViewWidget.burn_overlay_stamps: insert_image writes each stamp into
\* the live document, or raises and is skipped (burned is FALSE)
BurnStamps(burned) ==
    /\ doc # <<>>
    /\ overlay_stamps = <<>> => ~burned
    /\ doc' = IF burned THEN << Changed(doc[1]) >> ELSE doc
    /\ overlay_stamps' = <<>>
    /\ render_cache' = <<>>
    /\ use_high' = <<>>
    /\ UNCHANGED <<doc_bytes_snapshot, low_res_cache, use_low, annots,
                   selected_annot, drag, stamps_placed, released, mode_vars>>

\* PDFViewWidget.burn_overlay_stamps, called on its own
burn_overlay_stamps(burned) ==
    /\ BurnStamps(burned)
    /\ AnnotFrame

\* ------------------------------------------- background tasks of the host
\* the variables of the widget, which the task handlers of the host leave
\* alone
HostFrame ==
    UNCHANGED <<zoom_vars, layout_vars, doc_vars, cache_vars, pending_renders,
                task_vars, hist_vars, lru_vars, mode_vars, annot_vars, bound_vars, calc_vars>>

\* the languages of the OCR dialog
Languages == {"kor", "eng"}

\* MainWindow._on_ai_summarize (and _on_ai_ocr_correct, which has the same
\* shape); has_text is FALSE when the page has no text to send
_on_ai_summarize(has_text) ==
    /\ enabled
    /\ IF IsRunning(ai_task_worker)
       THEN /\ has_text
            /\ request' = Requested("ai", "_on_ai_summarize", ai_task_worker, TRUE)
            /\ UNCHANGED ai_task_worker
       ELSE /\ doc # <<>>
            /\ IF has_text
               THEN /\ ai_task_worker' =
                          << [task |-> "summarize_text", running |-> TRUE] >>
                    /\ request' = Requested("ai", "_on_ai_summarize",
                                            ai_task_worker, FALSE)
               ELSE UNCHANGED <<ai_task_worker, request>>
    /\ UNCHANGED <<ocr_worker, save_worker, enabled>>
    /\ HostFrame

\* MainWindow._on_ai_table_extract with the API key configured: the request
\* is rejected while an AI task runs, and puts the widget into the crop mode
\* otherwise
_on_ai_table_extract(outcome) ==
    /\ enabled
    /\ IF IsRunning(ai_task_worker)
       THEN /\ outcome = "inserted"
            /\ request' = Requested("ai", "_on_ai_table_extract", ai_task_worker, TRUE)
            /\ UNCHANGED <<ai_task_worker, ocr_worker, save_worker, enabled>>
            /\ HostFrame
       ELSE /\ doc # <<>>
            /\ enter_crop_mode(outcome)
            /\ UNCHANGED host_vars

\* AITaskWorker.run returns: the thread of the AI task ends
ai_task_done ==
    /\ IsRunning(ai_task_worker)
    /\ ai_task_worker' = << [ai_task_worker[1] EXCEPT !.running = FALSE] >>
    /\ UNCHANGED <<ocr_worker, save_worker, enabled, request>>
    /\ HostFrame

\* MainWindow._run_ocr, which calls OCRManager.start(file_path, language):
\* a running worker is cancelled and the new worker takes its place
_run_ocr(language) ==
    /\ enabled
    /\ doc # <<>>
    /\ ocr_worker' = << [language |-> language, running |-> TRUE] >>
    /\ request' = Requested("ocr", "_run_ocr", ocr_worker, FALSE)
    /\ UNCHANGED <<ai_task_worker, save_worker, enabled>>
    /\ HostFrame

\* OCRWorker.run returns
ocr_done ==
    /\ IsRunning(ocr_worker)
    /\ ocr_worker' = << [ocr_worker[1] EXCEPT !.running = FALSE] >>
    /\ UNCHANGED <<ai_task_worker, save_worker, enabled, request>>
    /\ HostFrame

\* MainWindow._save_file for a tab with a path: the stamps are burned in and
\* _start_save_worker disables the window, which takes no input until the
\* save has finished
_save_file(burned) ==
    /\ enabled
    /\ doc # <<>>
    /\ BurnStamps(burned)
    /\ save_worker' = << [running |-> TRUE] >>
    /\ enabled' = FALSE
    /\ request' = Requested("save", "_save_file", save_worker, FALSE)
    /\ UNCHANGED <<ai_task_worker, ocr_worker>>
    /\ UNCHANGED <<zoom_vars, layout_vars, file_path, file_content, pending_renders,
                   task_vars, hist_vars, delivery, bound_vars, calc_vars>>

\* MainWindow._on_save_finished
_on_save_finished ==
    /\ IsRunning(save_worker)
    /\ save_worker' = << [running |-> FALSE] >>
    /\ enabled' = TRUE
    /\ UNCHANGED <<ai_task_worker, ocr_worker, request>>
    /\ HostFrame

\* ---------------------------------------------------------- initial state
\* page sizes in points: a letter page, and documents of small pages, some
\* of them less than a pixel high at a small zoom
Letter == [w |-> 612, h |-> 792]
OneLetter == << Letter >>
ThreeLetters == << Letter, Letter, Letter >>
Documents ==
    { OneLetter,
      << [w |-> 612, h |-> 60], [w |-> 612, h |-> 5] >>,
      << [w |-> 300, h |-> 0], [w |-> 612, h |-> 20], [w |-> 612, h |-> 20] >> }

\* the text of the line the document holds when it is opened
OldText == << "a" >>

\* the document as opened from the file
Opened == [rev |-> 0, text |-> OldText, text2 |-> << "c" >>]

\* the widget showing document d, opened from path, at zoom 1.0 with the
\* caches high and low and their recency orders
InitWidget(d, scroll, path, cap, high, low) ==
    /\ zoom = ZOOM_UNIT
    /\ visual_zoom = ZOOM_UNIT
    /\ zoom_target = ZOOM_UNIT
    /\ is_zooming = FALSE
    /\ zoom_timer = FALSE
    /\ settle_timer = FALSE
    /\ lerp_timer = FALSE
    /\ gesture = <<>>
    /\ vbar = scroll
    /\ page_rects = d
    /\ page_offsets = _recalculate_layout(d, ZOOM_UNIT).offsets
    /\ page_heights = _recalculate_layout(d, ZOOM_UNIT).heights
    /\ doc = << Opened >>
    /\ file_path = path
    /\ file_content = Opened
    /\ doc_bytes_snapshot = <<>>
    /\ render_cache = high
    /\ low_res_cache = low
    /\ pending_renders = {}
    /\ tasks = <<>>
    /\ signals = <<>>
    /\ pool_cap = cap
    /\ n_wheel = 0
    /\ n_lerp = 0
    /\ commits = <<>>
    /\ use_high = [i \in 1..Len(high) |-> high[i].key]
    /\ use_low = [i \in 1..Len(low) |-> low[i].key]
    /\ delivery = <<>>
    /\ mode = MODE_NORMAL
    /\ text_edit_widget = <<>>
    /\ closed_edit = <<>>
    /\ focus_out_commits = <<>>
    /\ text_edit_lines_cache = {}
    /\ text_edit_hover_line = <<>>
    /\ text_edit_hover_page = -1
    /\ pending_text_config = <<>>
    /\ crop_start_pos = <<>>
    /\ crop_current_pos = <<>>
    /\ crop_callback = <<>>
    /\ crop_release = <<>>
    /\ annots = IF d = <<>> THEN <<>> ELSE FileAnnots
    /\ overlay_stamps = <<>>
    /\ selected_annot = <<>>
    /\ drag = <<>>
    /\ stamps_placed = 0
    /\ released = <<>>
    /\ ai_task_worker = <<>>
    /\ ocr_worker = <<>>
    /\ save_worker = <<>>
    /\ enabled = TRUE
    /\ request = <<>>

\* the widget and its host, and no function applied on its own
InitState(d, scroll, path, cap, high, low) ==
    /\ InitWidget(d, scroll, path, cap, high, low)
    /\ args = <<>>
    /\ result = <<>>

\* PDFViewWidget.__init__ followed by set_document(doc, path) for document d
InitWith(d, scroll, path, cap) == InitState(d, scroll, path, cap, <<>>, <<>>)

\* ------------------------------------------ specification: zoom controller
\* a document that was not opened from a file: no render task starts
InitZoom == InitWith(OneLetter, 0, "", 0)

NextZoom ==
    \/ /\ n_wheel < MaxWheel
       /\ \E ev \in {TickIn, BurstOut, PixelsNine} : wheelEvent(ev, 300)
    \/ \E z \in ZoomRequests : set_zoom(z)
    \/ _on_zoom_finished
    \/ n_lerp < MaxLerp /\ _lerp_zoom
    \/ _on_zoom_settled

SpecZoom == InitZoom /\ [][NextZoom]_vars

\* C5: in every reachable state the committed zoom, the target zoom and the
\* visual zoom each lie in [0.1, 8.0], whatever is requested through set_zoom
\* and whatever the wheel deltas are.
ZoomInRange ==
    /\ MIN_ZOOM <= zoom /\ zoom <= MAX_ZOOM
    /\ MIN_ZOOM <= zoom_target /\ zoom_target <= MAX_ZOOM
    /\ MIN_ZOOM <= visual_zoom /\ visual_zoom <= MAX_ZOOM

\* a wheel delta beyond the range was clamped, animated and committed
ZoomClamped ==
    /\ n_wheel > 0 /\ n_lerp > 0 /\ commits # <<>>
    /\ zoom \in {MIN_ZOOM, MAX_ZOOM}
    /\ visual_zoom = zoom

Init == InitWith(OneLetter, 0, "a.pdf", MaxTasks)

Workers ==
    \E t \in 1..Len(tasks) :
        \/ worker_open(t, TRUE)
        \/ worker_low(t, TRUE)
        \/ worker_check(t)
        \/ worker_high(t, TRUE)

Next ==
    \/ \E z \in TypedZooms : set_zoom(z)
    \/ _on_zoom_finished
    \/ _on_zoom_settled
    \/ paintEvent
    \/ Workers
    \/ _on_render_finished

Spec == Init /\ [][Next]_vars

\* C2 as stated: once the committed zoom has changed while a render task was
\* running, no result of that task is inserted into either cache, even if
\* the zoom is back at the task's zoom when the result is delivered.
StaleResultNeverInserted ==
    delivery # <<>> /\ delivery[1].stale => ~delivery[1].inserted

\* C2, amended: a result delivered while (page, round(committed zoom, 3))
\* differs from its key changes neither cache, and a delivery changes no
\* entry other than the one at the current key; a result of a task whose
\* zoom was left and entered again before delivery is inserted.
ResultInsertedOnlyAtCurrentKey ==
    [][Len(signals') < Len(signals)
         => LET s == Head(signals)
            IN  /\ s.key # Key(s.page, zoom) => UNCHANGED cache_vars
                /\ \A i \in 1..Len(render_cache') :
                      render_cache'[i].key # Key(s.page, zoom)
                        => \E j \in 1..Len(render_cache) :
                             render_cache[j] = render_cache'[i]
                /\ \A i \in 1..Len(low_res_cache') :
                      low_res_cache'[i].key # Key(s.page, zoom)
                        => \E j \in 1..Len(low_res_cache) :
                             low_res_cache[j] = low_res_cache'[i]]_vars

\* a result of a task whose zoom was left was delivered and dropped
StaleResultDropped ==
    delivery # <<>> /\ delivery[1].stale /\ ~delivery[1].inserted

\* C15: a pass of a render task sends its result only if the validity
\* predicate, abs(committed zoom - task zoom) < 0.001, holds when the pass
\* starts to render and still holds when the result is sent: no result is
\* sent in a state where the predicate is false for its task.
EmitsOnlyWhileValid ==
    [][Len(signals') > Len(signals)
          => _is_render_valid(signals'[Len(signals')].img.zoom)]_vars

\* --------------------------------- specification: two workers side by side
InitDup == InitWith(OneLetter, 0, "a.pdf", TwoTasks)

NextDup ==
    \/ n_wheel < MaxWheel /\ wheelEvent(PixelsDouble, 300)
    \/ set_zoom(5 * (ZOOM_UNIT \div 4))
    \/ _on_zoom_finished
    \/ _on_zoom_settled
    \/ paintEvent
    \/ Workers
    \/ _on_render_finished

SpecDup == InitDup /\ [][NextDup]_vars

\* C3: for every (page, rounded zoom) key at most one render task is
\* outstanding, started and not yet finished, at any time.
OneTaskPerKey ==
    \A t, u \in 1..Len(tasks) :
        (t # u /\ tasks[t].pc # "done" /\ tasks[u].pc # "done")
            => tasks[t].key # tasks[u].key

\* ------------------------------------ specification: snapshots and workers
InitSnapshot == InitWith(OneLetter, 0, "a.pdf", MaxTasks)

NextSnapshot ==
    \/ paintEvent
    \/ \E v \in {0, 100} : _on_scroll(v)
    \/ \E t \in 1..Len(tasks) :
          \/ \E ok \in BOOLEAN : worker_open(t, ok)
          \/ \E ok \in BOOLEAN : worker_low(t, ok)
          \/ worker_check(t)
          \/ \E ok \in BOOLEAN : worker_high(t, ok)
    \/ _on_render_finished
    \/ doc[1].rev < MaxEdits /\ \E ok \in BOOLEAN : add_text_at_page_center(0, ok)

SpecSnapshot == InitSnapshot /\ [][NextSnapshot]_vars

\* C4: a render task renders the source that was copied into it when it was
\* scheduled, the byte snapshot if there was one and else the file at the
\* path: the document a worker has open and every image it sends show that
\* content, whatever was done to the live document or to the widget's
\* snapshot since.
TaskRendersCapturedSource ==
    /\ \A t \in 1..Len(tasks) :
          tasks[t].src # <<>> => tasks[t].src[1] = tasks[t].sched
    /\ \A j \in 1..Len(signals) : signals[j].img.content = signals[j].sched

\* a worker scheduled before a mutation sent its image after it: the image
\* shows neither the live document nor the widget's new snapshot
RenderedAcrossMutation ==
    \E j \in 1..Len(signals) :
        /\ signals[j].img.content # doc[1]
        /\ doc_bytes_snapshot # <<>>
        /\ signals[j].img.content # doc_bytes_snapshot[1]

\* ------------------------------------------- specification: the full caches
\* A long session on a one-page document, back at zoom 1.0. The low-res tier
\* is full: its oldest entry is the page at 1.0 and the others are the page
\* at 2.01, 2.02, .. in the order they were rendered; each of these zooms
\* was left before the high-res pass of its task. The high-res tier is full
\* with the page at 4.01, 4.02, .., each rendered to the end.
Cached(z, high) ==
    [key |-> Key(0, z),
     img |-> [content |-> Opened, page |-> 0, zoom |-> z, high |-> high]]

FullLow ==
    [i \in 1..LOW_RES_CAP |->
        IF i = 1 THEN Cached(ZOOM_UNIT, FALSE)
        ELSE Cached(2 * ZOOM_UNIT + (i - 1) * 10 * ZOOM_EPS, FALSE)]

FullHigh ==
    [i \in 1..HIGH_RES_CAP |-> Cached(4 * ZOOM_UNIT + i * 10 * ZOOM_EPS, TRUE)]

InitCache == InitState(OneLetter, 0, "a.pdf", MaxTasks, FullHigh, FullLow)

NextCache ==
    \/ \E z \in ZoomOutIn : set_zoom(z)
    \/ _on_zoom_finished
    \/ _on_zoom_settled
    \/ paintEvent
    \/ Workers
    \/ _on_render_finished
    \/ doc[1].rev < MaxEdits /\ add_text_at_page_center(0, TRUE)

SpecCache == InitCache /\ [][NextCache]_vars

\* C1: the high-res cache holds at most 30 entries and the low-res cache at
\* most 150, and every entry that the last delivery removed to make room was
\* the least recently used entry of its tier at that moment, where an
\* insertion, an overwrite and a high-res hit each count as a use.
CacheBoundedLRU ==
    /\ Len(render_cache) <= HIGH_RES_CAP
    /\ Len(low_res_cache) <= LOW_RES_CAP
    /\ delivery # <<>> =>
          \A i \in 1..Len(delivery[1].evicted) :
              delivery[1].evicted[i].key = delivery[1].evicted[i].lru

\* ------------------------------------------------- specification: the layout
\* documents are loaded and the zoom is changed through every path that
\* recomputes the layout
InitLayout == InitWith(OneLetter, 0, "", 0)

NextLayout ==
    \/ \E d \in Documents \cup { <<>> } : set_document(d)
    \/ n_wheel < MaxWheel /\ wheelEvent(BurstOut, 300)
    \/ \E z \in ZoomRequests : set_zoom(z)
    \/ _on_zoom_finished

SpecLayout == InitLayout /\ [][NextLayout]_vars

\* C9: while a document is loaded, page_offsets has one entry per page,
\* page_offsets[i] < page_offsets[i+1] for all valid i, and
\* page_at_y(page_offsets[i]) = i for every page i, at every zoom.
LayoutOrdered ==
    doc # <<>> =>
        /\ Len(page_offsets) = Len(page_rects)
        /\ Len(page_heights) = Len(page_rects)
        /\ \A i \in 1..(Len(page_offsets) - 1) : page_offsets[i] < page_offsets[i + 1]
        /\ \A i \in 1..Len(page_offsets) : page_at_y(page_offsets, page_offsets[i]) = i - 1

\* a document with a page that is 0 pixels high is laid out at the smallest
\* zoom, committed by a wheel gesture
TinyPageLaidOut ==
    /\ doc # <<>> /\ Len(page_offsets) > 1
    /\ zoom = MIN_ZOOM /\ commits # <<>>
    /\ \E i \in 1..Len(page_heights) : page_heights[i] = 0

\* ------------------------------------- specification: zooming out and back
\* a three-page document; the wheel doubles or halves the target with the
\* cursor 100 or 300 pixels below the top of the viewport, and the user
\* scrolls between the gestures
InitAnchor == InitWith(ThreeLetters, 0, "", 0)

NextAnchor ==
    \/ /\ n_wheel < TwoGestures
       /\ \E ev \in {PixelsDouble, PixelsHalf} :
             \E y \in {100, 300} : wheelEvent(ev, y)
    \/ _on_zoom_finished
    \/ n_lerp < MaxLerp /\ _lerp_zoom
    \/ _on_zoom_settled
    \/ \E v \in {0, 1001} : _on_scroll(v)

SpecAnchor == InitAnchor /\ [][NextAnchor]_vars

\* the last two commits are a round trip: the second gesture starts where
\* the first one ended, has the same anchor and commits at the zoom the
\* first one started from
RoundTrip ==
    /\ Len(commits) = 2
    /\ commits[2].z0 = commits[1].z1
    /\ commits[2].z1 = commits[1].z0
    /\ commits[2].a = commits[1].a
    /\ commits[2].s0 = commits[1].s1

\* the rounding tolerance of a round trip in pixels: the zoom ratio z0 / z1
\* of its second commit, rounded up
Tolerance == (commits[2].z1 + commits[2].z0 - 1) \div commits[2].z0

FiveTicks == << TickIn, TickIn, TickIn, TickIn, TickIn >>

InitScenario == InitWith(OneLetter, 0, "a.pdf", MaxTasks)

\* the ticks follow each other within the 150 ms of the debounce, each one
\* restarting the timer: it expires after the last tick
DebounceFires == n_wheel = Len(FiveTicks) /\ _on_zoom_finished

NextScenario ==
    \/ n_wheel < Len(FiveTicks) /\ wheelEvent(FiveTicks[n_wheel + 1], 300)
    \/ DebounceFires
    \/ n_lerp < MaxLerp /\ _lerp_zoom
    \/ _on_zoom_settled
    \/ paintEvent
    \/ Workers
    \/ _on_render_finished

\* Timers that are running expire, the widget is repainted after update(),
\* the thread pool runs its workers and the event loop delivers the queued
\* results.
SpecScenario ==
    /\ InitScenario
    /\ [][NextScenario]_vars
    /\ WF_vars(DebounceFires)
    /\ WF_vars(_on_zoom_settled)
    /\ WF_vars(paintEvent)
    /\ WF_vars(Workers)
    /\ WF_vars(_on_render_finished)

\* C7: after the five zoom-in ticks the debounce fires; whenever it is not
\* running the committed zoom is 1.403, the target 1.07^5 rounded to 3
\* decimals, and the visual zoom equals it; and with rendering succeeding
\* the high-res cache eventually holds an entry keyed (visible page, 1.403).
FiveTicksCommitAndRender ==
    /\ [](n_wheel = Len(FiveTicks) /\ ~zoom_timer
            => /\ zoom = 1403 * ZOOM_EPS
               /\ zoom = Round3(zoom_target)
               /\ visual_zoom = zoom)
    /\ (n_wheel = Len(FiveTicks)) ~> ~zoom_timer
    /\ (n_wheel = Len(FiveTicks))
         ~> ODHas(render_cache, Key(visible_page(page_offsets, vbar), 1403 * ZOOM_EPS))

\* the five ticks were committed and the page was rendered at 1.403
RenderedAfterFiveTicks ==
    /\ n_wheel = Len(FiveTicks) /\ ~zoom_timer
    /\ zoom = 1403 * ZOOM_EPS /\ visual_zoom = zoom
    /\ ODHas(render_cache, Key(visible_page(page_offsets, vbar), zoom))

\* ------------------------------------------ specification: modes and edits
\* The crop mode is entered by the host's table extraction, and the crop
\* rectangles are too small to be given to the callback: no AI task starts.
\* The clicks are on the first line of the page or beside the lines.
InitMode == InitWith(OneLetter, 0, "", 0)

NextMode ==
    \/ \E o \in CommitOutcomes : enter_text_edit_mode(o)
    \/ \E o \in CommitOutcomes : exit_text_edit_mode(o)
    \/ \E o \in CommitOutcomes : enter_text_placement_mode(o, "helv")
    \/ exit_text_placement_mode
    \/ \E o \in CommitOutcomes : _on_ai_table_extract(o)
    \/ \E pos \in Positions : mousePressCrop(pos)
    \/ \E pos \in Positions : mouseMoveCrop(pos)
    \/ mouseReleaseEvent(FALSE, TRUE)
    \/ \E o \in CommitOutcomes : _clear_right_panel(o)
    \/ \E on_page, on_line \in BOOLEAN : _handle_text_edit_hover(on_page, on_line)
    \/ \E hit \in {0, 1}, o \in CommitOutcomes : _handle_text_edit_click(hit, o)
    \/ \E o \in CommitOutcomes : focus_out_commit(o)
    \/ doc[1].rev < MaxEdits /\ \E t \in { <<>>, << "b" >> } : edit_text(t)
    \/ \E o \in CommitOutcomes : _commit_text_edit(o)
    \/ _cancel_text_edit

SpecMode == InitMode /\ [][NextMode]_vars

\* C10 as stated: a step that enters crop mode from text edit mode with an
\* open editor leaves no editor open and leaves the document showing the
\* text of the editor; and in no state is the mode crop with an editor open.
CropCommitsNewText ==
    /\ [](~(mode = MODE_CROP /\ text_edit_widget # <<>>))
    /\ [][(mode = MODE_TEXT_EDIT /\ text_edit_widget # <<>> /\ mode' = MODE_CROP)
            => /\ text_edit_widget' = <<>>
               /\ ShownText(doc', text_edit_widget[1].line) = text_edit_widget[1].text]_vars

\* C10, amended: a step that enters crop mode from text edit mode with an
\* open editor runs the commit and leaves no editor open, and in no state
\* is the mode crop with an editor open. After the step the document shows
\* the text of the editor if that text differs from the old one, is not
\* blank and the engine did not raise; an unchanged or blank text leaves
\* the document as it was, and if the engine raised the document shows the
\* old text or, after the covering rectangle was drawn, no text.
CropClosesEditor ==
    /\ [](~(mode = MODE_CROP /\ text_edit_widget # <<>>))
    /\ [][(mode = MODE_TEXT_EDIT /\ text_edit_widget # <<>> /\ mode' = MODE_CROP)
            => /\ text_edit_widget' = <<>>
               /\ closed_edit' # <<>>
               /\ closed_edit'[1].by = "enter_crop_mode"
               /\ closed_edit'[1].text = text_edit_widget[1].text
               /\ LET w == text_edit_widget[1]
                  IN  IF w.text = w.old_text \/ Strip(w.text) = <<>>
                      THEN doc' = doc
                      ELSE \/ closed_edit'[1].outcome = "inserted"
                              /\ ShownText(doc', w.line) = w.text
                           \/ closed_edit'[1].outcome = "raised_before_cover"
                              /\ doc' = doc
                           \/ closed_edit'[1].outcome = "raised_after_cover"
                              /\ ShownText(doc', w.line) = <<>>]_vars

\* crop mode was entered with an editor open on a changed text, and the
\* document shows that text
CropCommitted ==
    /\ mode = MODE_CROP /\ text_edit_widget = <<>>
    /\ closed_edit # <<>>
    /\ closed_edit[1].by = "enter_crop_mode"
    /\ closed_edit[1].outcome = "inserted"
    /\ closed_edit[1].text # closed_edit[1].old_text
    /\ ShownText(doc, closed_edit[1].line) = closed_edit[1].text

\* what a step has left behind of the mode it started in: from text edit
\* mode no open editor, hover line or cached lines; from text placement mode
\* no pending text config unless the step sets one for that mode; from crop
\* mode no start or current point, and no callback unless the step sets one
\* for that mode
PreviousModeCleaned ==
    /\ mode = MODE_TEXT_EDIT =>
          /\ text_edit_widget' = <<>>
          /\ text_edit_hover_line' = <<>>
          /\ text_edit_hover_page' = -1
          /\ text_edit_lines_cache' = {}
    /\ mode = MODE_TEXT_PLACEMENT /\ mode' # MODE_TEXT_PLACEMENT =>
          pending_text_config' = <<>>
    /\ mode = MODE_CROP => crop_start_pos' = <<>> /\ crop_current_pos' = <<>>
    /\ mode = MODE_CROP /\ mode' # MODE_CROP => crop_callback' = <<>>

\* C11: a step that enters text placement, crop or text edit mode leaves
\* nothing of the mode it was called in: from text edit mode no open editor,
\* hover line or cached lines; from text placement mode no pending text
\* config other than the one the call passes; from crop mode no start or
\* current point and no callback other than the one the call passes.
ModeCleanedOnEntry ==
    [][\A o \in CommitOutcomes :
          /\ (mode' = MODE_TEXT_EDIT /\ enter_text_edit_mode(o))
                => PreviousModeCleaned
          /\ (mode' = MODE_CROP /\ enter_crop_mode(o))
                => PreviousModeCleaned /\ crop_callback' = << TableCallback >>
          /\ \A c \in TextConfigs :
                (mode' = MODE_TEXT_PLACEMENT /\ enter_text_placement_mode(o, c))
                   => PreviousModeCleaned /\ pending_text_config' = << c >>]_vars

\* text placement mode was entered while an editor was open, and crop mode
\* was entered from text placement mode
EnteredFromTextEdit ==
    /\ mode = MODE_CROP
    /\ closed_edit # <<>> /\ closed_edit[1].by = "enter_text_placement_mode"
    /\ text_edit_widget = <<>> /\ text_edit_lines_cache = {}
    /\ text_edit_hover_line = <<>>
    /\ pending_text_config = <<>>
    /\ crop_callback # <<>>

\* ------------------------------------- specification: clearing the caches
InitInvalidate == InitWith(OneLetter, 0, "a.pdf", MaxTasks)

NextInvalidate ==
    \/ \E z \in TypedZooms : set_zoom(z)
    \/ _on_zoom_finished
    \/ paintEvent
    \/ Workers
    \/ _on_render_finished
    \/ invalidate_all_pages
    \/ doc[1].rev < MaxEdits /\ \E ok \in BOOLEAN : _on_doc_changed(ok)

SpecInvalidate == InitInvalidate /\ [][NextInvalidate]_vars

\* C12: a call of invalidate_all_pages leaves both tiers empty: neither the
\* high-res cache nor the low-res cache holds an entry when it returns.
BothTiersCleared ==
    [][invalidate_all_pages => render_cache' = <<>> /\ low_res_cache' = <<>>]_vars

\* ------------------------------- specification: invalidation of one page
\* a three-page file whose pages were shown at 0.8, 1.0 and 1.25: some were
\* rendered to the end, some only by the fast pass
CachedPage(p, z, high) ==
    [key |-> Key(p, z),
     img |-> [content |-> Opened, page |-> p, zoom |-> z, high |-> high]]

SomeHigh ==
    << CachedPage(0, 4 * (ZOOM_UNIT \div 5), TRUE), CachedPage(1, ZOOM_UNIT, TRUE),
       CachedPage(0, ZOOM_UNIT, TRUE), CachedPage(2, 5 * (ZOOM_UNIT \div 4), TRUE),
       CachedPage(1, 5 * (ZOOM_UNIT \div 4), TRUE) >>

SomeLow ==
    << CachedPage(1, 4 * (ZOOM_UNIT \div 5), FALSE), CachedPage(2, ZOOM_UNIT, FALSE),
       CachedPage(0, 5 * (ZOOM_UNIT \div 4), FALSE),
       CachedPage(2, 4 * (ZOOM_UNIT \div 5), FALSE) >>

InitPage == InitState(ThreeLetters, 0, "a.pdf", MaxTasks, SomeHigh, SomeLow)

NextPage ==
    \/ doc[1].rev < MaxEdits
         /\ \E p \in 0..2, ok \in BOOLEAN : add_text_at_page_center(p, ok)
    \/ paintEvent
    \/ \E v \in {0, 900} : _on_scroll(v)
    \/ Workers
    \/ _on_render_finished

SpecPage == InitPage /\ [][NextPage]_vars

\* the entries of cache od that are not for page p, in their order
OtherPages(od, p) ==
    LET keep == { i \in 1..Len(od) : od[i].key.page # p }
        RECURSIVE Upto(_)
        Upto(n) == IF n = 0 THEN <<>>
                   ELSE IF n \in keep THEN Append(Upto(n - 1), od[n])
                   ELSE Upto(n - 1)
    IN  Upto(Len(od))

\* C13: a mutation of page p, which calls _invalidate_page(p), leaves no
\* entry for page p at any zoom in either tier and leaves the entries of
\* every other page in both tiers as they were.
PageInvalidated ==
    [][\A p \in 0..2 :
          (\E ok \in BOOLEAN : add_text_at_page_center(p, ok))
             => /\ \A i \in 1..Len(render_cache') : render_cache'[i].key.page # p
                /\ \A i \in 1..Len(low_res_cache') : low_res_cache'[i].key.page # p
                /\ render_cache' = OtherPages(render_cache, p)
                /\ low_res_cache' = OtherPages(low_res_cache, p)]_vars

\* page 1 was changed: its entries at 0.8, 1.0 and 1.25 are gone from both
\* tiers and those of pages 0 and 2 are still there
OnlyPageOneInvalidated ==
    /\ doc[1].rev = 1
    /\ \A i \in 1..Len(render_cache) : render_cache[i].key.page # 1
    /\ \A i \in 1..Len(low_res_cache) : low_res_cache[i].key.page # 1
    /\ \A e \in { SomeHigh[1], SomeHigh[3], SomeHigh[4] } :
          \E i \in 1..Len(render_cache) : render_cache[i] = e
    /\ \A e \in { SomeLow[2], SomeLow[3], SomeLow[4] } :
          \E i \in 1..Len(low_res_cache) : low_res_cache[i] = e

\* ------------------------- specification: a late result of the fast pass
InitLate == InitWith(OneLetter, 0, "a.pdf", TwoTasks)

NextLate ==
    \/ set_zoom(5 * (ZOOM_UNIT \div 4))
    \/ _on_zoom_finished
    \/ paintEvent
    \/ Workers
    \/ _on_render_finished

SpecLate == InitLate /\ [][NextLate]_vars

\* C14: the delivery of a low-res result leaves the high-res tier as it
\* was, so a high-res entry that exists for its key is neither removed nor
\* replaced; and a delivery that inserts a high-res image for a key leaves
\* that image in the high-res tier and no image for the key in the low-res
\* tier.
HighResKeptByLowRes ==
    [][(signals # <<>> /\ signals' = Tail(signals)) =>
          LET s == Head(signals)
          IN  /\ ~s.high => render_cache' = render_cache
              /\ (s.high /\ delivery'[1].inserted) =>
                    /\ ODHas(render_cache', s.key)
                    /\ render_cache'[ODIndex(render_cache', s.key)].img = s.img
                    /\ ~ODHas(low_res_cache', s.key)]_vars

\* the last delivery stored a low-res image for a key whose high-res image
\* was in the cache already, and that image is still there
LateLowResDelivered ==
    /\ delivery # <<>>
    /\ ~delivery[1].high /\ delivery[1].inserted
    /\ ODHas(low_res_cache, delivery[1].key)
    /\ ODHas(render_cache, delivery[1].key)
    /\ render_cache[ODIndex(render_cache, delivery[1].key)].img.high

\* ---------------------------------- specification: annotations and stamps
\* One letter page with the annotation of the file, both cache tiers hold
\* the page, and no render task runs. Each document takes MaxEdits changes
\* and the widget takes MaxStamps stamps; the host edits the annotation that
\* is selected, and replaces the document while no drag is open. Every
\* snapshot succeeds.
InitAnnot ==
    InitState(OneLetter, 0, "a.pdf", 0, << Cached(ZOOM_UNIT, TRUE) >>,
              << Cached(5 * (ZOOM_UNIT \div 4), FALSE) >>)

NextAnnot ==
    \/ \E hit \in HitTargets : mousePressEvent(hit)
    \/ \E r \in Rects, ok \in BOOLEAN : mouseMoveDrag(r, ok)
    \/ /\ doc # <<>> /\ doc[1].rev < MaxEdits
       /\ \E o \in EngineOutcomes, snap \in {TRUE} : mouseReleaseDrag(o, snap)
    \/ /\ doc # <<>> /\ doc[1].rev < MaxEdits
       /\ \E hit \in HitTargets, entry \in {"none", "delete"},
             o \in EngineOutcomes, snap \in {TRUE} :
             _show_context_menu(hit, entry, o, snap)
    \/ enter_text_placement_mode("inserted", "helv")
    \/ exit_text_placement_mode
    \/ /\ doc # <<>> /\ doc[1].rev < MaxEdits
       /\ \E snap \in {TRUE} : _place_text_at(<<400, 300>>, snap)
    \/ /\ stamps_placed < MaxStamps
       /\ \E snap \in {TRUE} : place_stamp_on_page(snap)
    \/ /\ doc # <<>> /\ doc[1].rev < MaxEdits /\ selected_annot # <<>>
       /\ \E t \in {"more"}, o \in EngineOutcomes, snap \in {TRUE} :
             update_freetext_annot(selected_annot[1], t, o, snap)
    \/ /\ doc # <<>> /\ doc[1].rev < MaxEdits
       /\ \E burned \in BOOLEAN : burn_overlay_stamps(burned)
    \/ drag = <<>> /\ set_document(OneLetter)

SpecAnnot == InitAnnot /\ [][NextAnnot]_vars

\* how many overlay stamps have their selected flag set
SelectedStamps ==
    Cardinality({i \in 1..Len(overlay_stamps) : overlay_stamps[i].selected})

\* C16: in every reachable state at most one item is selected: the number
\* of overlay stamps whose selected flag is set, plus one if a native
\* annotation is selected, is at most 1.
AtMostOneSelected ==
    SelectedStamps + (IF selected_annot # <<>> THEN 1 ELSE 0) <= 1

\* C17: a release that ends a drag in which the mouse never moved, with the
\* engine accepting every call, discards the drag state and mutates nothing:
\* the document and its snapshot are unchanged, the cache entries of the
\* page are kept, and doc_modified is not emitted.
UnmovedReleaseDiscards ==
    [][\A snap \in BOOLEAN :
          (drag # <<>> /\ drag' = <<>> /\ ~drag[1].moved
             /\ mouseReleaseDrag("ok", snap))
          => /\ doc' = doc
             /\ doc_bytes_snapshot' = doc_bytes_snapshot
             /\ render_cache' = render_cache
             /\ low_res_cache' = low_res_cache
             /\ ~released'[1].emitted]_vars

\* the step is an explicit delete of a stamp, or the burn-in
DeletesOrBurns ==
    \/ \E burned \in BOOLEAN : burn_overlay_stamps(burned)
    \/ \E hit \in HitTargets, snap \in BOOLEAN :
          _show_context_menu(hit, "delete", "ok", snap)

\* C18: a stamp that is in the overlay list stays in it over every step
\* that is neither an explicit delete nor the burn-in.
StampsPersist ==
    [][(overlay_stamps # <<>> /\ ~DeletesOrBurns)
          => \A i \in 1..Len(overlay_stamps) :
                HasItem(overlay_stamps', overlay_stamps[i].id)]_vars

\* the step is an annotation mutation in which the engine rejects a call
EngineRejects ==
    \/ \E r \in Rects : mouseMoveDrag(r, FALSE)
    \/ \E o \in EngineOutcomes \ {"ok"} : mouseReleaseDrag(o, TRUE)
    \/ \E hit \in HitTargets, o \in EngineOutcomes \ {"ok"} :
          _show_context_menu(hit, "delete", o, TRUE)
    \/ /\ selected_annot # <<>>
       /\ \E t \in {"text", "more"}, o \in EngineOutcomes \ {"ok"} :
             update_freetext_annot(selected_annot[1], t, o, TRUE)

\* C19: when the engine rejects a step of an annotation mutation, the
\* operation is abandoned with the prior state intact: the annotations of
\* the page and the document are what they were.
RejectedMutationAbandoned ==
    [][EngineRejects => annots' = annots /\ doc' = doc]_vars

\* ------------------------------- specification: background tasks of the host
\* One letter page from a file. The user asks for summaries, table
\* extractions, OCR runs and saves while the window is enabled; the tasks end
\* at any time.
InitHost == InitWith(OneLetter, 0, "a.pdf", 0)

NextHost ==
    \/ \E has_text \in BOOLEAN : _on_ai_summarize(has_text)
    \/ _on_ai_table_extract("inserted")
    \/ enabled /\ \E pos \in Positions : mousePressCrop(pos)
    \/ enabled /\ \E big, ok \in BOOLEAN : mouseReleaseEvent(big, ok)
    \/ ai_task_done
    \/ \E language \in Languages : _run_ocr(language)
    \/ ocr_done
    \/ /\ enabled /\ stamps_placed < MaxStamps
       /\ place_stamp_on_page(TRUE)
    \/ /\ doc # <<>> /\ doc[1].rev < MaxEdits
       /\ \E burned \in BOOLEAN : _save_file(burned)
    \/ _on_save_finished

SpecHost == InitHost /\ [][NextHost]_vars

\* C20: a request for a background task that is made while a task of its
\* category is outstanding is rejected with the busy status, and the running
\* task is neither stopped nor replaced.
BusyRequestRejected ==
    (request # <<>> /\ request[1].outstanding) => request[1].rejected

\* C21: a release that ends a drag in the crop mode sets the mode to normal
\* and clears the start and current points; with a rectangle of more than
\* 10 by 10 pixels the callback is invoked exactly once, and otherwise not
\* at all.
CropReleaseCompletes ==
    [][\A big, ok \in BOOLEAN :
          mouseReleaseEvent(big, ok)
             => /\ mode' = MODE_NORMAL
                /\ crop_start_pos' = <<>> /\ crop_current_pos' = <<>>
                /\ crop_release'[1].calls = IF big THEN 1 ELSE 0]_vars

\* ----------------------------------- specification: native-text line edits
\* text edit mode over a page with two text lines: clicks on either line or
\* beside them, typing, Return, Escape, and the commits that the focus-out
\* handlers queue
InitEdit == InitWith(OneLetter, 0, "", 0)

NextEdit ==
    \/ \E o \in CommitOutcomes : enter_text_edit_mode(o)
    \/ \E o \in CommitOutcomes : exit_text_edit_mode(o)
    \/ \E hit \in {0} \cup Lines, o \in CommitOutcomes :
          _handle_text_edit_click(hit, o)
    \/ doc[1].rev < MaxEdits /\ \E t \in TypedTexts : edit_text(t)
    \/ \E o \in CommitOutcomes : _commit_text_edit(o)
    \/ _cancel_text_edit
    \/ \E o \in CommitOutcomes : focus_out_commit(o)

SpecEdit == InitEdit /\ [][NextEdit]_vars

\* C22: at most one editor is open, and a click in text edit mode while an
\* editor is open first commits that editor (the commit is the one of the
\* open line with its text, and an applied commit shows on the page), and
\* the editor the click opens is on the clicked line with the text the page
\* shows after that commit.
EditSwitchCommitsFirst ==
    [][\A hit \in {0} \cup Lines, o \in CommitOutcomes :
          (text_edit_widget # <<>> /\ _handle_text_edit_click(hit, o))
          => /\ Len(text_edit_widget) <= 1 /\ Len(text_edit_widget') <= 1
             /\ closed_edit' # <<>>
             /\ closed_edit'[1].by = "_handle_text_edit_click"
             /\ closed_edit'[1].line = text_edit_widget[1].line
             /\ closed_edit'[1].text = text_edit_widget[1].text
             /\ (CommitApplies /\ o = "inserted")
                   => ShownText(doc', text_edit_widget[1].line)
                         = text_edit_widget[1].text
             /\ text_edit_widget' # <<>>
                   => /\ text_edit_widget'[1].line = hit
                      /\ text_edit_widget'[1].old_text = ShownText(doc', hit)
                      /\ text_edit_widget'[1].text = ShownText(doc', hit)]_vars

\* C22 witness: the changed first line was committed by a click on the second
\* line, whose editor is open
EditSwitched ==
    /\ text_edit_widget # <<>> /\ text_edit_widget[1].line = 2
    /\ closed_edit # <<>>
    /\ closed_edit[1].by = "_handle_text_edit_click"
    /\ closed_edit[1].line = 1
    /\ closed_edit[1].outcome = "inserted"
    /\ closed_edit[1].text # closed_edit[1].old_text
    /\ ShownText(doc, 1) = closed_edit[1].text

\* C23 as stated: Escape discards the editor and leaves the document, its
\* snapshot, the render caches and the text-line cache as they are, and so
\* does the commit that the focus-out handler of the cancelled editor queued.
CancelTouchesNothing ==
    [][\A o \in CommitOutcomes :
          (\/ _cancel_text_edit
           \/ /\ focus_out_commits # <<>>
              /\ Head(focus_out_commits) = "_cancel_text_edit"
              /\ focus_out_commit(o))
          => /\ UNCHANGED <<doc, doc_bytes_snapshot, cache_vars,
                            text_edit_lines_cache>>
             /\ text_edit_widget' = <<>>]_vars

\* ------------------------------------------------- geometry of a resize
\* fitz.Rect: width and height
RectWidth(r) == FracSub(r.x1, r.x0)
RectHeight(r) == FracSub(r.y1, r.y0)
RectOf(x0, y0, x1, y1) ==
    [x0 |-> Frac(x0), y0 |-> Frac(y0), x1 |-> Frac(x1), y1 |-> Frac(y1)]

\* the corner handles are numbered 0 top left, 1 top right, 2 bottom right,
\* 3 bottom left; PDFViewWidget.mousePressEvent takes the opposite corner of
\* _orig_rect as _resize_anchor
Corners == 0 .. 3
ResizeAnchor(r, corner) ==
    CASE corner = 0 -> [x |-> r.x1, y |-> r.y1]
      [] corner = 1 -> [x |-> r.x0, y |-> r.y1]
      [] corner = 2 -> [x |-> r.x0, y |-> r.y0]
      [] corner = 3 -> [x |-> r.x1, y |-> r.y0]

\* the stamps that are resized, the zooms, and the pointer's page coordinates
StampRects == { RectOf(100, 100, 200, 150), RectOf(100, 100, 150, 200),
                RectOf(100, 100, 130, 107) }
ResizeZooms == { <<1, 2>>, <<1, 1>>, <<2, 1>> }
PointerXs == { 60, 100, 140, 240 }
PointerYs == { 90, 100, 110, 160 }

\* the free resize that mouseMoveEvent applies to a native annotation: the
\* rectangle spanned by the anchor and the pointer, at least 20 by 10 screen
\* pixels
FreeResize(orig, anchor, px, py, z) ==
    LET x0 == IF FracLess(Frac(px), anchor.x) THEN Frac(px) ELSE anchor.x
        y0 == IF FracLess(Frac(py), anchor.y) THEN Frac(py) ELSE anchor.y
        x1 == IF FracLess(Frac(px), anchor.x) THEN anchor.x ELSE Frac(px)
        y1 == IF FracLess(Frac(py), anchor.y) THEN anchor.y ELSE Frac(py)
        w == FracMax(FracSub(x1, x0), FracDiv(Frac(20), z))
        h == FracMax(FracSub(y1, y0), FracDiv(Frac(10), z))
    IN  [x0 |-> x0, y0 |-> y0, x1 |-> FracAdd(x0, w), y1 |-> FracAdd(y0, h)]

\* the resize that mouseMoveEvent applies to a stamp: the new rectangle for
\* the pointer at page position (px, py), or the rectangle as it is when
\* _orig_rect has no positive width and height
StampResize(orig, anchor, px, py, z) ==
    LET orig_w == RectWidth(orig)
        orig_h == RectHeight(orig)
        aspect == FracDiv(orig_w, orig_h)
        dx == FracAbs(FracSub(Frac(px), anchor.x))
        dy == FracAbs(FracSub(Frac(py), anchor.y))
        wide == FracLess(dy, FracDiv(dx, aspect))
        new_w == IF wide THEN FracMax(dx, FracDiv(Frac(20), z))
                 ELSE FracMul(FracMax(dy, FracDiv(Frac(20), z)), aspect)
        new_h == IF wide THEN FracDiv(new_w, aspect)
                 ELSE FracMax(dy, FracDiv(Frac(20), z))
        nx0 == IF FracLess(Frac(px), anchor.x) THEN FracSub(anchor.x, new_w)
               ELSE anchor.x
        ny0 == IF FracLess(Frac(py), anchor.y) THEN FracSub(anchor.y, new_h)
               ELSE anchor.y
    IN  IF FracLess(Frac(0), orig_w) /\ FracLess(Frac(0), orig_h)
        THEN [x0 |-> nx0, y0 |-> ny0, x1 |-> FracAdd(nx0, new_w),
              y1 |-> FracAdd(ny0, new_h)]
        ELSE orig

\* the variables a resize of a stamp leaves alone
ResizeFrame ==
    UNCHANGED <<zoom_vars, layout_vars, doc_vars, cache_vars, pending_renders,
                task_vars, hist_vars, lru_vars, mode_vars, annot_vars,
                host_vars, bound_vars>>

\* PDFViewWidget.mousePressEvent on corner handle corner of a stamp with the
\* rectangle r at zoom z: the drag starts
mousePressCorner(r, corner, z) ==
    /\ args = <<>>
    /\ args' = [orig_rect |-> r, resize_corner |-> corner,
                resize_anchor |-> ResizeAnchor(r, corner), zoom |-> z,
                is_resizing |-> TRUE]
    /\ result' = << r >>
    /\ ResizeFrame

\* PDFViewWidget.mouseMoveEvent during the resize, the pointer at (px, py)
mouseMoveResize(px, py) ==
    /\ args # <<>> /\ args.is_resizing
    /\ result' = << StampResize(args.orig_rect, args.resize_anchor, px, py,
                                args.zoom) >>
    /\ UNCHANGED args
    /\ ResizeFrame

\* PDFViewWidget.mouseReleaseEvent ends the resize; the stamp keeps its
\* rectangle
mouseReleaseResize ==
    /\ args # <<>> /\ args.is_resizing
    /\ args' = [args EXCEPT !.is_resizing = FALSE]
    /\ UNCHANGED result
    /\ ResizeFrame

\* --------------------------------------- specification: resize of a stamp
InitResize == InitWith(OneLetter, 0, "", 0)

NextResize ==
    \/ \E r \in StampRects, corner \in Corners, z \in ResizeZooms :
          mousePressCorner(r, corner, z)
    \/ \E px \in PointerXs, py \in PointerYs : mouseMoveResize(px, py)
    \/ mouseReleaseResize

SpecResize == InitResize /\ [][NextResize]_vars

\* C24: during and after the resize of a stamp by a corner handle the
\* rectangle has the width to height ratio of the rectangle at the start of
\* the drag, and the corner opposite the handle, the anchor, is still a
\* corner of it.
StampResizeKeepsRatio ==
    args # <<>> =>
        LET r == result[1]
            o == args.orig_rect
            a == args.resize_anchor
        IN  /\ FracEq(FracMul(RectWidth(r), RectHeight(o)),
                      FracMul(RectHeight(r), RectWidth(o)))
            /\ FracLess(Frac(0), RectWidth(r))
            /\ FracEq(r.x0, a.x) \/ FracEq(r.x1, a.x)
            /\ FracEq(r.y0, a.y) \/ FracEq(r.y1, a.y)

\* C24 witness: the stamp of 100 by 50 whose bottom right handle was dragged
\* by (40, 10) is 140 by 70 after the release
StampResized ==
    /\ args # <<>> /\ ~args.is_resizing
    /\ args.orig_rect = RectOf(100, 100, 200, 150)
    /\ args.resize_corner = 2
    /\ FracEq(RectWidth(result[1]), Frac(140))
    /\ FracEq(RectHeight(result[1]), Frac(70))
    /\ FracEq(result[1].x0, Frac(100)) /\ FracEq(result[1].y0, Frac(100))

\* ------------------------------------------- text of a line from its glyphs
\* a glyph of the rawdict: its character c ("" when the engine gives none)
\* and the horizontal extent x0..x1 of its bbox. The glyphs of a line, up to
\* MaxGlyphs of them, each placed at one of Gaps after the glyph before it
\* and with one of GlyphWidths.
MaxGlyphs == 3
GlyphChars == { "a", " ", "" }
GlyphWidths == { 0, 10, 30 }
Gaps == { 3, 4, 100 }

RECURSIVE GlyphLines(_)
GlyphLines(n) ==
    IF n = 0 THEN { <<>> }
    ELSE { LET x0 == (IF l = <<>> THEN 0 ELSE l[Len(l)].x1) + g
           IN  Append(l, [c |-> c, x0 |-> x0, x1 |-> x0 + w]) :
              l \in GlyphLines(n - 1), c \in GlyphChars, w \in GlyphWidths,
              g \in Gaps }

RECURSIVE SumWidths(_, _)
SumWidths(widths, i) ==
    IF i > Len(widths) THEN 0 ELSE widths[i] + SumWidths(widths, i + 1)

\* a threshold of 0.5 times the average width
SpaceThresholdHalf(all_chars) ==
    LET widths == SelectSeq([i \in 1 .. Len(all_chars) |->
                                all_chars[i].x1 - all_chars[i].x0],
                            LAMBDA w : w > 0)
        avg_char_w == IF widths # <<>>
                      THEN FracDiv(Frac(SumWidths(widths, 1)), Frac(Len(widths)))
                      ELSE Frac(5)
    IN  FracMul(avg_char_w, <<1, 2>>)

\* space_threshold: 0.35 times the average of the positive glyph widths of
\* the line, the average being 5.0 when no glyph has a positive width
SpaceThreshold(all_chars) ==
    LET widths == SelectSeq([i \in 1 .. Len(all_chars) |->
                                all_chars[i].x1 - all_chars[i].x0],
                            LAMBDA w : w > 0)
        avg_char_w == IF widths # <<>>
                      THEN FracDiv(Frac(SumWidths(widths, 1)), Frac(Len(widths)))
                      ELSE Frac(5)
    IN  FracMul(avg_char_w, <<35, 100>>)

\* the loop over all_chars from glyph i on: prev_x1 is <<>> (None) or <<the
\* right edge of the last glyph that was emitted>>
RECURSIVE LineParts(_, _, _, _)
LineParts(all_chars, i, prev_x1, space_threshold) ==
    IF i > Len(all_chars) THEN <<>>
    ELSE LET ch == all_chars[i]
         IN  IF ch.c = ""
             THEN LineParts(all_chars, i + 1, prev_x1, space_threshold)
             ELSE (IF /\ prev_x1 # <<>>
                      /\ FracLess(space_threshold, Frac(ch.x0 - prev_x1[1]))
                   THEN << " " >> ELSE <<>>)
                  \o << ch.c >>
                  \o LineParts(all_chars, i + 1, << ch.x1 >>, space_threshold)

\* PDFViewWidget._extract_line_text_from_chars for spans with the glyphs
\* all_chars, at least one
_extract_line_text_from_chars(all_chars) ==
    Strip(LineParts(all_chars, 1, <<>>, SpaceThreshold(all_chars)))

\* the function is applied to the glyphs in args
extract_line_text ==
    /\ args # <<>> /\ args.fn = "_extract_line_text_from_chars"
    /\ result = <<>>
    /\ result' = << _extract_line_text_from_chars(args.chars) >>
    /\ UNCHANGED args
    /\ ResizeFrame

\* ------------------------------------ specification: text of a glyph line
InitLineText ==
    /\ InitWidget(OneLetter, 0, "", 0, <<>>, <<>>)
    /\ \E n \in 1 .. MaxGlyphs, l \in GlyphLines(MaxGlyphs) :
          /\ Len(l) >= n
          /\ args = [fn |-> "_extract_line_text_from_chars",
                     chars |-> SubSeq(l, 1, n)]
    /\ result = <<>>

NextLineText == extract_line_text

SpecLineText == InitLineText /\ [][NextLineText]_vars

\* the glyphs of args that have a character, in reading order
KeptGlyphs == SelectSeq(args.chars, LAMBDA ch : ch.c # "")

\* the gap after kept glyph j is above 0.35 times the average positive width
WideGap(j) ==
    LET pos == { i \in 1 .. Len(args.chars) :
                    args.chars[i].x1 > args.chars[i].x0 }
        total == SumWidths([i \in 1 .. Len(args.chars) |->
                     IF i \in pos THEN args.chars[i].x1 - args.chars[i].x0
                     ELSE 0], 1)
        gap == KeptGlyphs[j + 1].x0 - KeptGlyphs[j].x1
    IN  IF pos = {} THEN gap * 100 > 5 * 35
        ELSE gap * 100 * Cardinality(pos) > 35 * total

\* where kept glyph i stands in a text with one space for every wide gap
\* before it and nothing else between the glyphs
GlyphPos(i) == i + Cardinality({ j \in 1 .. i - 1 : WideGap(j) })

\* that text
SpacedText ==
    [k \in 1 .. (IF KeptGlyphs = <<>> THEN 0 ELSE GlyphPos(Len(KeptGlyphs))) |->
        IF \E i \in 1 .. Len(KeptGlyphs) : GlyphPos(i) = k
        THEN KeptGlyphs[CHOOSE i \in 1 .. Len(KeptGlyphs) : GlyphPos(i) = k].c
        ELSE " "]

MaxLineRecords == 3
Extents == { <<0, 10>>, <<2, 8>>, <<10, 20>>, <<0, 20>> }
Bands == { <<0, 10>>, <<2, 12>>, <<3, 13>>, <<0, 14>> }

RECURSIVE LineLists(_)
LineLists(n) ==
    IF n = 0 THEN { <<>> }
    ELSE { Append(l, [n |-> n, x0 |-> e[1], x1 |-> e[2], y0 |-> b[1],
                      y1 |-> b[2]]) :
              l \in LineLists(n - 1), e \in Extents, b \in Bands }

\* a test for lines with the same box
SameBox(bi, bj) ==
    /\ bi.y0 = bj.y0 /\ bi.y1 = bj.y1 /\ bi.x0 = bj.x0 /\ bi.x1 = bj.x1

\* the test of the inner loop: the vertical positions are nearly the same
\* and the horizontal ranges overlap
IsDup(bi, bj) ==
    /\ Abs(bi.y0 - bj.y0) < 3 /\ Abs(bi.y1 - bj.y1) < 3
    /\ bi.x0 < bj.x1 /\ bj.x0 < bi.x1

\* has_later_dup of line i after the inner loop from line j on
RECURSIVE HasLaterDup(_, _, _)
HasLaterDup(lines, i, j) ==
    IF j > Len(lines) THEN FALSE
    ELSE IF IsDup(lines[i], lines[j]) THEN TRUE
    ELSE HasLaterDup(lines, i, j + 1)

\* deduped: the outer loop from line i on
RECURSIVE Deduped(_, _)
Deduped(lines, i) ==
    IF i > Len(lines) THEN <<>>
    ELSE (IF HasLaterDup(lines, i, i + 1) THEN <<>> ELSE << lines[i] >>)
         \o Deduped(lines, i + 1)

\* PDFViewWidget._get_text_lines_for_page for a page that is not cached and
\* whose lines with a text are those of args
get_text_lines ==
    /\ args # <<>> /\ args.fn = "_get_text_lines_for_page"
    /\ result = <<>>
    /\ result' = << Deduped(args.lines, 1) >>
    /\ UNCHANGED args
    /\ ResizeFrame

\* ----------------------------------- specification: text lines of a page
InitLines ==
    /\ InitWidget(OneLetter, 0, "", 0, <<>>, <<>>)
    /\ \E n \in 1 .. MaxLineRecords :
          args \in { [fn |-> "_get_text_lines_for_page", lines |-> l] :
                        l \in LineLists(n) }
    /\ result = <<>>

NextLines == get_text_lines

SpecLines == InitLines /\ [][NextLines]_vars

\* line a has the vertical band of line b and overlaps it horizontally
Covers(a, b) ==
    /\ -3 < a.y0 - b.y0 /\ a.y0 - b.y0 < 3
    /\ -3 < a.y1 - b.y1 /\ a.y1 - b.y1 < 3
    /\ Max(a.x0, b.x0) < Min(a.x1, b.x1)

\* C26: the lines returned are, in document order and once each, the lines
\* that no later line covers: a line that a later line covers is dropped,
\* and a line is not dropped for covering an earlier one.
LaterLineKept ==
    (args # <<>> /\ result # <<>>) =>
        LET lines == args.lines
            out == result[1]
        IN  /\ \A i \in 1 .. Len(lines) :
                  (\E k \in 1 .. Len(out) : out[k] = lines[i])
                  <=> ~ \E j \in i + 1 .. Len(lines) : Covers(lines[j], lines[i])
            /\ \A k, k2 \in 1 .. Len(out) : k < k2 => out[k].n < out[k2].n

\* C26 witness: of two lines in one band, the first from 2 to 8 and the
\* second from 0 to 10, only the second is returned
OnlyLaterReturned ==
    /\ args # <<>> /\ Len(args.lines) = 2
    /\ args.lines[1].x0 = 2 /\ args.lines[1].x1 = 8
    /\ args.lines[2].x0 = 0 /\ args.lines[2].x1 = 10
    /\ args.lines[1].y0 = args.lines[2].y0 /\ args.lines[1].y1 = args.lines[2].y1
    /\ result = << << args.lines[2] >> >>

\* ------------------------------------------------------ character wrap
\* a text is a sequence of characters, "\n" among them and "ga" standing
\* for a Hangul syllable; up to MaxChars characters. The widths are in
\* units of a quarter point.
MaxChars == 4
WrapChars == { "i", "W", "ga", "\n" }
WrapWidths == { 0, 12, 24, 36 }
FontSizes == { 0, 1, 2 }
FontNames == { "helv", "korea" }

RECURSIVE WrapTexts(_)
WrapTexts(n) ==
    IF n = 0 THEN { <<>> }
    ELSE WrapTexts(n - 1)
         \cup { Append(t, ch) : t \in { u \in WrapTexts(n - 1) : Len(u) = n - 1 },
                                ch \in WrapChars }

\* fitz.get_text_length(ch, fontname, fontsize): 0 for a character the font
\* does not have
GetTextLength(ch, fontname, fontsize) ==
    fontsize * (CASE ch = "i" -> 2
                  [] ch = "W" -> 8
                  [] ch = "ga" -> IF fontname = "helv" THEN 0 ELSE 9
                  [] OTHER -> 0)

\* QFontMetricsF.horizontalAdvance(ch) of the default font at the size
HorizontalAdvance(ch, fontsize) ==
    fontsize * (CASE ch = "i" -> 3 [] ch = "W" -> 9 [] ch = "ga" -> 10
                  [] OTHER -> 0)

\* _char_width of _fitz_char_wrap_text
CharWidth(ch, fontname, fontsize) ==
    IF GetTextLength(ch, fontname, fontsize) > 0
    THEN GetTextLength(ch, fontname, fontsize)
    ELSE HorizontalAdvance(ch, fontsize)

\* text.split("\n")
RECURSIVE SplitLines(_, _)
SplitLines(text, cur) ==
    IF text = <<>> THEN << cur >>
    ELSE IF Head(text) = "\n" THEN << cur >> \o SplitLines(Tail(text), <<>>)
    ELSE SplitLines(Tail(text), Append(cur, Head(text)))

\* "\n".join(lines)
RECURSIVE JoinLines(_)
JoinLines(lines) ==
    IF lines = <<>> THEN <<>>
    ELSE IF Len(lines) = 1 THEN lines[1]
    ELSE lines[1] \o << "\n" >> \o JoinLines(Tail(lines))

\* a line that starts with the width 0 whatever its first character is
CarryNothing(ch_w) == 0

\* cur_w after a break: the width of the character that starts the line
CarryWidth(ch_w) == ch_w

\* the loop over the characters of a line from character i on: the lines it
\* appends to result_lines
RECURSIVE WrapLine(_, _, _, _, _, _, _)
WrapLine(line, i, cur, cur_w, effective_width, fontname, fontsize) ==
    IF i > Len(line) THEN (IF cur # <<>> THEN << cur >> ELSE <<>>)
    ELSE LET ch == line[i]
             ch_w == CharWidth(ch, fontname, fontsize)
         IN  IF cur_w + ch_w > effective_width /\ cur # <<>>
             THEN << cur >> \o WrapLine(line, i + 1, << ch >>, CarryWidth(ch_w),
                                        effective_width, fontname, fontsize)
             ELSE WrapLine(line, i + 1, Append(cur, ch), cur_w + ch_w,
                           effective_width, fontname, fontsize)

\* result_lines for the lines from line k on
RECURSIVE WrapLines(_, _, _, _, _)
WrapLines(lines, k, effective_width, fontname, fontsize) ==
    IF k > Len(lines) THEN <<>>
    ELSE (IF lines[k] = <<>> THEN << <<>> >>
          ELSE WrapLine(lines[k], 1, <<>>, 0, effective_width, fontname,
                        fontsize))
         \o WrapLines(lines, k + 1, effective_width, fontname, fontsize)

\* _fitz_char_wrap_text(text, max_width, fontsize, fontname); 16 quarter
\* points are the padding of 4.0
_fitz_char_wrap_text(text, max_width, fontsize, fontname) ==
    IF text = <<>> \/ max_width <= 0 \/ fontsize <= 0 THEN text
    ELSE LET effective_width == IF max_width - 16 <= 0 THEN max_width
                                ELSE max_width - 16
         IN  JoinLines(WrapLines(SplitLines(text, <<>>), 1, effective_width,
                                 fontname, fontsize))

\* the text of args is wrapped
wrap_text ==
    /\ args # <<>> /\ args.fn = "_fitz_char_wrap_text"
    /\ result = <<>>
    /\ result' = << _fitz_char_wrap_text(args.text, args.max_width,
                                         args.fontsize, args.fontname) >>
    /\ UNCHANGED args
    /\ ResizeFrame

\* the wrapped text is wrapped again, with the same width, size and font
wrap_again ==
    /\ args # <<>> /\ args.fn = "_fitz_char_wrap_text"
    /\ Len(result) = 1
    /\ result' = Append(result,
                        _fitz_char_wrap_text(result[1], args.max_width,
                                             args.fontsize, args.fontname))
    /\ UNCHANGED args
    /\ ResizeFrame

\* --------------------------------------- specification: character wrap
InitWrap ==
    /\ InitWidget(OneLetter, 0, "", 0, <<>>, <<>>)
    /\ args \in { [fn |-> "_fitz_char_wrap_text", text |-> t, max_width |-> w,
                   fontsize |-> s, fontname |-> f] :
                     t \in WrapTexts(MaxChars), w \in WrapWidths,
                     s \in FontSizes, f \in FontNames }
    /\ result = <<>>

NextWrap ==
    \/ wrap_text
    \/ wrap_again

SpecWrap == InitWrap /\ [][NextWrap]_vars

\* C27: wrapping the wrapped text again with the same width, font size and
\* font returns it unchanged.
WrapIdempotent ==
    (args # <<>> /\ Len(result) = 2) => result[2] = result[1]

\* C27 witness: a text that the first wrap broke into lines was wrapped
\* again
WrappedTwice ==
    /\ args # <<>> /\ Len(result) = 2
    /\ result[1] # args.text
    /\ args.text = << "W", "W", "i", "W" >>

\* ------------------------------------------------------------- hit test
\* the rectangles of the items of page 0 on the screen, at zoom 1 with the
\* page at the origin; up to MaxHitItems annotations and as many stamps
MaxHitItems == 2
HANDLE_SIZE == 8
HitRects == { [x0 |-> 0, y0 |-> 0, x1 |-> 100, y1 |-> 100],
              [x0 |-> 50, y0 |-> 50, x1 |-> 150, y1 |-> 150],
              [x0 |-> 200, y0 |-> 0, x1 |-> 300, y1 |-> 100] }
HitPoints == { <<25, 25>>, <<75, 75>>, <<53, 96>>, <<120, 120>>, <<400, 400>> }

RECURSIVE RectLists(_)
RectLists(n) ==
    IF n = 0 THEN { <<>> }
    ELSE RectLists(n - 1)
         \cup { Append(l, r) : l \in { u \in RectLists(n - 1) : Len(u) = n - 1 },
                               r \in HitRects }

\* the corner handles of the screen rectangle sr, 0 top left, 1 top right,
\* 2 bottom right, 3 bottom left
HandlePoints(sr) ==
    << <<sr.x0, sr.y0>>, <<sr.x1, sr.y0>>, <<sr.x1, sr.y1>>, <<sr.x0, sr.y1>> >>

\* math.hypot(pos.x() - corner.x(), pos.y() - corner.y()) < HANDLE_SIZE
NearHandle(pos, corner) ==
    (pos[1] - corner[1]) * (pos[1] - corner[1])
       + (pos[2] - corner[2]) * (pos[2] - corner[2])
    < HANDLE_SIZE * HANDLE_SIZE

\* QRectF.contains(pos)
RectContains(sr, pos) ==
    /\ sr.x0 <= pos[1] /\ pos[1] <= sr.x1
    /\ sr.y0 <= pos[2] /\ pos[2] <= sr.y1

\* the test of one item: <<>> or <<the corner, or -1 for the body>>
ItemHit(sr, pos) ==
    IF \E c \in 1 .. 4 : NearHandle(pos, HandlePoints(sr)[c])
    THEN << (CHOOSE c \in 1 .. 4 :
                /\ NearHandle(pos, HandlePoints(sr)[c])
                /\ \A d \in 1 .. c - 1 : ~NearHandle(pos, HandlePoints(sr)[d])) - 1 >>
    ELSE IF RectContains(sr, pos) THEN << -1 >>
    ELSE <<>>

\* the loop over the annotations of the page from annotation k on, in the
\* order of page.annots()
RECURSIVE HitAnnots(_, _, _)
HitAnnots(annots_list, k, pos) ==
    IF k > Len(annots_list) THEN <<>>
    ELSE IF ItemHit(annots_list[k], pos) # <<>>
    THEN << [match_type |-> "annot", index |-> k,
             corner |-> ItemHit(annots_list[k], pos)[1]] >>
    ELSE HitAnnots(annots_list, k + 1, pos)

\* the loop over reversed(_overlay_stamps) from stamp k down
RECURSIVE HitStamps(_, _, _)
HitStamps(stamps, k, pos) ==
    IF k < 1 THEN <<>>
    ELSE IF ItemHit(stamps[k], pos) # <<>>
    THEN << [match_type |-> "stamp", index |-> k,
             corner |-> ItemHit(stamps[k], pos)[1]] >>
    ELSE HitStamps(stamps, k - 1, pos)

\* PDFViewWidget._hit_test_annot(pos): <<>> (None) or <<the hit>>
_hit_test_annot(annots_list, stamps, pos) ==
    IF HitAnnots(annots_list, 1, pos) # <<>> THEN HitAnnots(annots_list, 1, pos)
    ELSE HitStamps(stamps, Len(stamps), pos)

\* the hit test is applied to the items and the point of args
hit_test ==
    /\ args # <<>> /\ args.fn = "_hit_test_annot"
    /\ result = <<>>
    /\ result' = << _hit_test_annot(args.annots_list, args.stamps, args.pos) >>
    /\ UNCHANGED args
    /\ ResizeFrame

\* ------------------------------------------- specification: hit test
InitHit ==
    /\ InitWidget(OneLetter, 0, "", 0, <<>>, <<>>)
    /\ args \in { [fn |-> "_hit_test_annot", annots_list |-> a, stamps |-> s,
                   pos |-> p] :
                     a \in RectLists(MaxHitItems), s \in RectLists(MaxHitItems),
                     p \in HitPoints }
    /\ result = <<>>

NextHit == hit_test

SpecHit == InitHit /\ [][NextHit]_vars

\* C28 as stated: when bodies of items contain the point, the hit is the
\* item that is drawn last: the last of the stamps whose body contains the
\* point if there is one, a stamp being drawn over the annotations of the
\* page.
TopmostHit ==
    (args # <<>> /\ result # <<>>) =>
        LET over == { k \in 1 .. Len(args.stamps) :
                         RectContains(args.stamps[k], args.pos) }
        IN  over # {} =>
               /\ result[1] # <<>>
               /\ result[1][1].match_type = "stamp"
               /\ result[1][1].index = CHOOSE k \in over : \A j \in over : j <= k

\* --------------------------------- specification: placement of a text
\* the clicks of the text placement mode: within page 0, left of it, and
\* below it
ClickPoints == { <<400, 300>>, <<95, 16>>, <<10, 300>>, <<400, 5000>> }

InitPlace == InitWith(OneLetter, 0, "", 0)

NextPlace ==
    \/ \E c \in TextConfigs : enter_text_placement_mode("inserted", c)
    \/ exit_text_placement_mode
    \/ /\ doc # <<>> => doc[1].rev < MaxEdits
       /\ \E p \in ClickPoints, snap \in BOOLEAN : _place_text_at(p, snap)
    \/ \E d \in { <<>>, OneLetter } : set_document(d)
    \/ \E z \in TypedZooms : set_zoom(z)

SpecPlace == InitPlace /\ [][NextPlace]_vars

\* the rectangle has its centre at the point
CentredAt(rect, point) ==
    /\ FracEq(FracAdd(rect.x0, rect.x1), FracMul(Frac(2), point.x))
    /\ FracEq(FracAdd(rect.y0, rect.y1), FracMul(Frac(2), point.y))
    /\ FracLess(rect.x0, rect.x1) /\ FracLess(rect.y0, rect.y1)

\* the left edge of the one page, 612 wide, on the screen at the zoom, and
\* the click is within that page
PageLeft ==
    IF (612 * zoom) \div ZOOM_UNIT >= WIDGET_W - 20 THEN 10
    ELSE (WIDGET_W - (612 * zoom) \div ZOOM_UNIT) \div 2
WithinPageZero(p) ==
    /\ doc # <<>>
    /\ PageLeft <= p[1] /\ p[1] <= PageLeft + (612 * zoom) \div ZOOM_UNIT
    /\ page_offsets[1] <= p[2] /\ p[2] <= page_offsets[1] + page_heights[1]

PixelsTwo == [pixel_y |-> 2, angle_y |-> 0]

InitLerp == InitWith(OneLetter, 0, "", 0)

\* the wheel events of a gesture, which arrive before tick MaxLerp of the
\* animation, the zoom box, and the three timers; the lerp timer ticks until
\* a handler stops it
NextLerp ==
    \/ /\ n_wheel < MaxWheel
       /\ n_lerp < MaxLerp
       /\ \E ev \in {TickIn, TickOut, PixelsTwo} : wheelEvent(ev, 300)
    \/ \E z \in { 0, 5 * (ZOOM_UNIT \div 4) } : set_zoom(z)
    \/ _on_zoom_finished
    \/ _lerp_zoom
    \/ _on_zoom_settled

\* A QTimer that is active expires while the event loop runs: the single-shot
\* debounce and settle timers once, the 16 ms lerp timer again and again
\* until stop() is called.
SpecLerp ==
    /\ InitLerp
    /\ [][NextLerp]_vars
    /\ WF_vars(_on_zoom_finished)
    /\ WF_vars(_lerp_zoom)
    /\ WF_vars(_on_zoom_settled)

\* a tick of the lerp timer: at a distance of 0.0005 or more the visual zoom
\* moves by 0.22 of the difference (to the unit of the zoom values), toward
\* the target and not beyond it; nearer than that it is set to the target
LerpTickMoves ==
    n_lerp' # n_lerp =>
        LET diff == zoom_target - visual_zoom
            moved == visual_zoom' - visual_zoom
        IN  IF Abs(diff) < LERP_EPS
            THEN visual_zoom' = zoom_target
            ELSE /\ Abs(100 * moved - 22 * diff) < 100
                 /\ diff > 0 => (visual_zoom < visual_zoom' /\ visual_zoom' <= zoom_target)
                 /\ diff < 0 => (zoom_target <= visual_zoom' /\ visual_zoom' < visual_zoom)

\* the lerp timer is stopped with the visual zoom set to the target, or to
\* the committed zoom rounded from the target
AnimationStopsSet ==
    lerp_timer /\ ~lerp_timer' =>
        \/ visual_zoom' = zoom_target'
        \/ visual_zoom' = zoom' /\ zoom' = Round3(zoom_target')

\* the animation is over: the timer is stopped and the visual zoom is the
\* target or the target rounded to 3 decimals
Settled ==
    /\ ~lerp_timer
    /\ visual_zoom = zoom_target \/ visual_zoom = Round3(zoom_target)

\* C30 as stated: the visual zoom eventually equals the target zoom and
\* stays equal to it; each lerp tick moves it toward the target by 0.22 of
\* the remaining difference without overshooting; the animation stops only
\* with the visual zoom set to the target or to the committed zoom.
VisualReachesTarget ==
    /\ <>[](visual_zoom = zoom_target)
    /\ [][LerpTickMoves]_vars
    /\ [][AnimationStopsSet]_vars

\* C30, amended: the animation eventually stops for good with the visual
\* zoom equal to the target zoom or to the target rounded to 3 decimals (the
\* committed zoom of the gesture), so within 0.0005 of the target; each lerp
\* tick at a distance of 0.0005 or more moves the visual zoom toward the
\* target by 0.22 of the remaining difference without overshooting, a tick
\* nearer than that sets it to the target; the animation stops only with the
\* visual zoom set to the target or to the committed zoom rounded from it.
VisualSettles ==
    /\ <>[]Settled
    /\ [](Settled => Abs(visual_zoom - zoom_target) <= LERP_EPS)
    /\ [][LerpTickMoves]_vars
    /\ [][AnimationStopsSet]_vars

\* a gesture that was animated and then committed: the visual zoom is the
\* rounded target, which is not the target
CommittedOffTarget ==
    /\ n_wheel > 0
    /\ n_lerp > 0
    /\ ~lerp_timer
    /\ ~zoom_timer
    /\ visual_zoom = Round3(zoom_target)
    /\ visual_zoom # zoom_target

\* --------------------------------- specification: the visible page range
\* a document of eight letter pages, and the documents with small pages
EightLetters == << Letter, Letter, Letter, Letter, Letter, Letter, Letter, Letter >>

\* positions the user scrolls to
ScrollStops == { 0, 700, 1310, 2400, 9000 }

\* the range as paintEvent obtains it, kept with the layout and the scroll
\* value it was computed from
visible_page_range ==
    /\ result' = << [offsets |-> page_offsets, heights |-> page_heights,
                     scroll |-> vbar,
                     range |-> _visible_page_range(page_offsets, vbar)] >>
    /\ result' # result
    /\ UNCHANGED args
    /\ ResizeFrame

InitRange == InitWith(EightLetters, 0, "", 0)

NextRange ==
    \/ \E d \in Documents \cup { <<>>, EightLetters } : set_document(d)
    \/ \E z \in ZoomRequests : set_zoom(z)
    \/ \E v \in ScrollStops : _on_scroll(v)
    \/ visible_page_range

SpecRange == InitRange /\ [][NextRange]_vars

\* page i (1-based) of the layout of r reaches into the viewport extended by
\* the buffer above and below
InBufferedView(r, i) ==
    /\ r.offsets[i] <= r.scroll + VIEWPORT_H + VISIBLE_BUFFER
    /\ r.offsets[i] + r.heights[i] >= r.scroll - VISIBLE_BUFFER

\* C31: _visible_page_range returns <<start, end>> with
\* 0 <= start <= end <= page count, and every page whose vertical extent
\* [offset, offset + height] intersects the viewport extended by the
\* 500-pixel buffer above and below has start <= index < end.
RangeCoversBufferedView ==
    result # <<>> =>
        LET r == result[1]
            start == r.range[1]
            end == r.range[2]
        IN  /\ 0 <= start /\ start <= end /\ end <= Len(r.offsets)
            /\ \A i \in 1..Len(r.offsets) :
                  InBufferedView(r, i) => (start <= i - 1 /\ i - 1 < end)

\* a range that leaves pages out on both sides and starts with a page that
\* begins above the buffer and reaches into it
RangeCutBothSides ==
    /\ result # <<>>
    /\ result[1].range[1] > 0
    /\ result[1].range[2] < Len(result[1].offsets)
    /\ LET r == result[1]
           i == r.range[1] + 1
       IN  /\ r.offsets[i] < r.scroll - VISIBLE_BUFFER
           /\ InBufferedView(r, i)

\* ----------------------------------------- what a page is drawn from
\* the pages of a paintEvent for which the high-res cache has no entry at
\* the current key
Misses == { i \in PaintedPages : ~ODHas(render_cache, Key(i, zoom)) }

\* C32: in a paintEvent, for every page with a high-res miss at the current
\* key: the returned image was rendered at a zoom with another key only
\* while _is_zooming is true; when it is false the call returns the entry of
\* the low-res cache at exactly that key or nothing; and after the call the
\* key is pending, with a new task started for it unless it was pending
\* before.
MissFallbackOnlyWhileZooming ==
    [][paintEvent =>
         \A i \in Misses :
            LET key == Key(i, zoom)
                ret == PagePixmap(i)
            IN  /\ (ret # <<>> /\ Key(ret[1].page, ret[1].zoom) # key) => is_zooming
                /\ ~is_zooming =>
                      \/ ret = <<>>
                      \/ /\ ODHas(low_res_cache, key)
                         /\ ret[1] = low_res_cache[ODIndex(low_res_cache, key)].img
                /\ key \in pending_renders'
                /\ key \notin pending_renders =>
                      \E t \in 1..Len(tasks') :
                         /\ tasks'[t].key = key /\ tasks'[t].pc = "queued"
                         /\ (t > Len(tasks) \/ tasks[t] # tasks'[t])]_vars

\* a paintEvent during the settle window of a zoom request has drawn page 0
\* from the image of another zoom and started the task for the current key
DrawnFromOtherZoom ==
    /\ is_zooming
    /\ 0 \in Misses
    /\ ~ODHas(low_res_cache, Key(0, zoom))
    /\ PagePixmap(0) # <<>>
    /\ Key(0, zoom) \in pending_renders
    /\ \E t \in 1..Len(tasks) : tasks[t].key = Key(0, zoom) /\ tasks[t].pc = "queued"

\* ------------------------------ specification: one run of a render worker
\* RenderWorker.run statement by statement. args is the worker as
\* _start_render_task constructed it, result[1] is its position: pc, the
\* document handle doc ("none", "open", "closed"), the images emitted, and
\* the way the body of the try was left.
RunPages == { 0, 5 }

\* a return inside the try block that leaves without the finally block
ReturnDirect == "done"

\* a return inside the try block (and an exception in it) runs the finally
\* block before run() returns
ReturnInTry == "finally"

RunStep(r) ==
    /\ result' = << r >>
    /\ UNCHANGED args
    /\ ResizeFrame

\* if self.is_valid_cb and not self.is_valid_cb(): return
run_first_check ==
    /\ result # <<>> /\ result[1].pc = "start"
    /\ RunStep(IF _is_render_valid(args.zoom)
               THEN [result[1] EXCEPT !.pc = "open"]
               ELSE [result[1] EXCEPT !.pc = "done", !.left = "first check"])

\* fitz.open of the bytes or of the path; ok is FALSE when it raises
run_open(ok) ==
    /\ result # <<>> /\ result[1].pc = "open"
    /\ RunStep(IF ok
               THEN [result[1] EXCEPT !.pc = "low", !.doc = "open"]
               ELSE [result[1] EXCEPT !.pc = ReturnInTry, !.left = "open raised"])

\* the fast pass: doc[page_index] raises for a page the document does not
\* have, get_pixmap raises when ok is FALSE; both are caught
run_low(ok) ==
    /\ result # <<>> /\ result[1].pc = "low"
    /\ RunStep([result[1] EXCEPT
                  !.pc = "check",
                  !.emitted = IF ok /\ args.page_index < Len(page_rects)
                              THEN Append(@, "low") ELSE @])

\* the validity check between the passes
run_check ==
    /\ result # <<>> /\ result[1].pc = "check"
    /\ RunStep(IF _is_render_valid(args.zoom)
               THEN [result[1] EXCEPT !.pc = "high"]
               ELSE [result[1] EXCEPT !.pc = ReturnInTry, !.left = "check"])

\* the high-res pass
run_high(ok) ==
    /\ result # <<>> /\ result[1].pc = "high"
    /\ RunStep([result[1] EXCEPT
                  !.pc = "finally",
                  !.left = IF ~ok THEN "high raised"
                           ELSE IF args.page_index < Len(page_rects) THEN "end"
                           ELSE "no page",
                  !.emitted = IF ok /\ args.page_index < Len(page_rects)
                              THEN Append(@, "high") ELSE @])

\* finally: if doc: doc.close()
run_finally ==
    /\ result # <<>> /\ result[1].pc = "finally"
    /\ RunStep([result[1] EXCEPT
                  !.pc = "done",
                  !.doc = IF @ = "open" THEN "closed" ELSE @])

InitRun ==
    /\ InitWidget(OneLetter, 0, "a.pdf", MaxTasks, <<>>, <<>>)
    /\ args \in { [fn |-> "RenderWorker.run", page_index |-> p, zoom |-> z] :
                     p \in RunPages, z \in TypedZooms }
    /\ result = << [pc |-> "start", doc |-> "none", emitted |-> <<>>,
                    left |-> ""] >>

\* the worker thread runs while the main thread changes the zoom
NextRun ==
    \/ \E z \in TypedZooms : set_zoom(z)
    \/ _on_zoom_finished
    \/ _on_zoom_settled
    \/ run_first_check
    \/ \E ok \in BOOLEAN : run_open(ok)
    \/ \E ok \in BOOLEAN : run_low(ok)
    \/ run_check
    \/ \E ok \in BOOLEAN : run_high(ok)
    \/ run_finally

RunSteps ==
    \/ run_first_check
    \/ \E ok \in BOOLEAN : run_open(ok)
    \/ \E ok \in BOOLEAN : run_low(ok)
    \/ run_check
    \/ \E ok \in BOOLEAN : run_high(ok)
    \/ run_finally

\* the thread pool runs a worker it has started to the end of run()
SpecRun == InitRun /\ [][NextRun]_vars /\ WF_vars(RunSteps)

\* C33: run() ends, and when it has ended a document handle that was opened
\* is closed, however the body was left: after both passes, after a pass
\* that raised, for a page index out of range, or at the validity check
\* between the passes; and the handle is never closed and still used.
HandleClosedAtEnd ==
    /\ <>(result[1].pc = "done")
    /\ [](result[1].pc = "done" => result[1].doc # "open")
    /\ [](result[1].doc = "closed" => result[1].pc = "done")
    /\ [](result[1].pc \in {"low", "check", "high"} => result[1].doc = "open")

\* a run that was abandoned at the check between the passes, after its
\* fast pass was emitted, has closed its handle
AbandonedRunClosed ==
    /\ result[1].pc = "done"
    /\ result[1].left = "check"
    /\ result[1].emitted = << "low" >>
    /\ result[1].doc = "closed"

\* --------------------------- specification: the raw text of a text box
\* Two tabs, each with its own document, shown by the one widget. args is
\* the part of the program this is about: tab is the tab shown, docs[d] is
\* the document of tab d with next_xref, the number its next new object
\* gets, and its free-text annotations [xref, text, width, entered] (entered
\* is history: the text the user typed), raw is _annot_raw_text as a set of
\* [xref, text], and drag is <<>> or <<[k, raw_text]>>: _drag_annot and
\* _drag_raw_text. Widths are in quarter points, the font is helv at size 1.
MaxXref == 3
EnteredTexts == { << "W", "W", "i" >>, << "i", "i" >> }
PlacedWidth == 40
ResizeWidths == { 20, 26, 40 }

\* dict.get(xref): <<>> for None
RawGet(raw, xref) ==
    IF \E e \in raw : e.xref = xref
    THEN << (CHOOSE e \in raw : e.xref = xref).text >>
    ELSE <<>>

\* dict[xref] = text
RawSet(raw, xref, text) ==
    { e \in raw : e.xref # xref } \cup { [xref |-> xref, text |-> text] }

TabStep(a) ==
    /\ args' = a
    /\ UNCHANGED result
    /\ ResizeFrame

\* MainWindow._on_tab_changed: set_document(tab.document, tab.file_path)
switch_tab(d) ==
    /\ args.fn = "_annot_raw_text" /\ args.drag = <<>>
    /\ d # args.tab
    /\ TabStep([args EXCEPT !.tab = d])

\* _place_text_at: the annotation is created with the text as typed and
\* the text is filed under its xref
place_text(text) ==
    /\ args.fn = "_annot_raw_text" /\ args.drag = <<>>
    /\ LET d == args.tab
           x == args.docs[d].next_xref
       IN  /\ x <= MaxXref
           /\ args.docs[d].annots = <<>>
           /\ TabStep([args EXCEPT
                  !.docs[d].next_xref = x + 1,
                  !.docs[d].annots = Append(@, [xref |-> x, text |-> text,
                                                width |-> PlacedWidth,
                                                entered |-> text,
                                                resizes |-> 0]),
                  !.raw = RawSet(@, x, text)])

\* mousePressEvent on a corner handle of annotation k of the document shown
press_corner(k) ==
    /\ args.fn = "_annot_raw_text" /\ args.drag = <<>>
    /\ k \in 1..Len(args.docs[args.tab].annots)
    /\ LET a == args.docs[args.tab].annots[k]
           got == RawGet(args.raw, a.xref)
       IN  TabStep([args EXCEPT
               !.drag = << [k |-> k,
                            raw_text |-> IF got = <<>> THEN a.text ELSE got[1]] >>])

\* mouseReleaseEvent after the corner was dragged to the width w: the
\* annotation is deleted and created again with the wrapped text
release_corner(w) ==
    /\ args.fn = "_annot_raw_text" /\ args.drag # <<>>
    /\ LET d == args.tab
           k == args.drag[1].k
           x == args.docs[d].next_xref
           old == args.docs[d].annots[k]
       IN  /\ x <= MaxXref
           /\ TabStep([args EXCEPT
                  !.docs[d].next_xref = x + 1,
                  !.docs[d].annots[k] =
                      [xref |-> x,
                       text |-> _fitz_char_wrap_text(args.drag[1].raw_text, w, 1, "helv"),
                       width |-> w,
                       entered |-> old.entered,
                       resizes |-> 1],
                  !.raw = RawSet(@, x, args.drag[1].raw_text),
                  !.drag = <<>>])

\* the two documents number their objects on their own: the next number of
\* each is what its file happens to hold
InitRawText ==
    /\ InitWidget(OneLetter, 0, "", 0, <<>>, <<>>)
    /\ args \in { [fn |-> "_annot_raw_text", tab |-> 1,
                   docs |-> << [next_xref |-> 1, annots |-> <<>>],
                               [next_xref |-> n, annots |-> <<>>] >>,
                   raw |-> {}, drag |-> <<>>] : n \in {1, 2} }
    /\ result = <<>>

NextRawText ==
    \/ \E d \in {1, 2} : switch_tab(d)
    \/ \E t \in EnteredTexts : place_text(t)
    \/ \E k \in {1} : press_corner(k)
    \/ \E w \in ResizeWidths : release_corner(w)

SpecRawText == InitRawText /\ [][NextRawText]_vars

\* C34 as stated: an annotation that was resized shows the character-wrap,
\* at its width, of the text that was entered for it, and the raw text filed
\* under its xref is that text.
RawTextSurvivesResizes ==
    args.fn = "_annot_raw_text" =>
        \A d \in {1, 2} : \A k \in 1..Len(args.docs[d].annots) :
            LET a == args.docs[d].annots[k]
            IN  a.resizes > 0 =>
                   a.text = _fitz_char_wrap_text(a.entered, a.width, 1, "helv")

\* ------------------------ specification: a mutation while a task is running
\* page 0 is painted and rendered while an annotation is added to it; the
\* snapshot of the mutation succeeds
InitInFlight == InitWith(OneLetter, 0, "a.pdf", MaxTasks)

NextInFlight ==
    \/ paintEvent
    \/ \E v \in {0, 100} : _on_scroll(v)
    \/ \E t \in 1..Len(tasks) :
          \/ \E ok \in BOOLEAN : worker_open(t, ok)
          \/ \E ok \in BOOLEAN : worker_low(t, ok)
          \/ worker_check(t)
          \/ \E ok \in BOOLEAN : worker_high(t, ok)
    \/ _on_render_finished
    \/ doc[1].rev < MaxEdits /\ add_text_at_page_center(0, TRUE)

SpecInFlight == InitInFlight /\ [][NextInFlight]_vars

\* C35 as stated: neither cache tier holds for page 0 an image that a task
\* scheduled before the last mutation of the page produced: every image the
\* tiers hold for the page shows the content of the live document.
NoImageFromBeforeMutation ==
    /\ \A i \in 1..Len(render_cache) :
          render_cache[i].key.page = 0 => render_cache[i].img.content = doc[1]
    /\ \A i \in 1..Len(low_res_cache) :
          low_res_cache[i].key.page = 0 => low_res_cache[i].img.content = doc[1]

\* ------------------- specification: another document while a task is running
\* the widget shows the document of one file and is then given the document
\* of another file, whose page 0 has the same size
InitSwitch == InitWith(OneLetter, 0, "a.pdf", MaxTasks)

NextSwitch ==
    \/ paintEvent
    \/ \E v \in {0, 100} : _on_scroll(v)
    \/ \E t \in 1..Len(tasks) :
          \/ \E ok \in BOOLEAN : worker_open(t, ok)
          \/ \E ok \in BOOLEAN : worker_low(t, ok)
          \/ worker_check(t)
          \/ \E ok \in BOOLEAN : worker_high(t, ok)
    \/ _on_render_finished
    \/ file_path # OTHER_PATH /\ \E d \in Documents : set_document_path(d)

SpecSwitch == InitSwitch /\ [][NextSwitch]_vars

\* C36 as stated: once set_document has switched the widget to the other
\* document, neither cache tier holds an image rendered from the previous
\* document: every cached image shows the document the widget now has.
NoImageOfPreviousDocument ==
    file_path = OTHER_PATH =>
        /\ \A i \in 1..Len(render_cache) : render_cache[i].img.content = doc[1]
        /\ \A i \in 1..Len(low_res_cache) : low_res_cache[i].img.content = doc[1]

\* ------------------------------------------ the flag of an interactive zoom
\* C37 as stated, for the debounce timer: _is_zooming is true in every state
\* in which the zoom debounce is pending, so the settle timer that an earlier
\* commit started does not clear the flag between a newer wheel event and
\* that event's own commit.
ZoomingWhileDebouncePending == zoom_timer => is_zooming

\* --------------------------------------- a deferred commit and a later editor
\* C38 as stated: the commit that the focus-out handler of an editor queued
\* neither commits nor closes an editor that was opened after that editor was
\* hidden: the editor that is open when the queued commit runs stays open,
\* and the document stays as it is.
DeferredCommitSparesLaterEditor ==
    [][\A o \in CommitOutcomes :
          focus_out_commit(o)
          => /\ text_edit_widget' = text_edit_widget
             /\ UNCHANGED <<doc, doc_bytes_snapshot>>]_vars

\* ------------------------ specification: the source a render task is given
\* a file is shown and painted while an annotation is added, a stamp is
\* placed and burnt in, and the tab is left and shown again; every snapshot
\* succeeds
InitCarry == InitWith(OneLetter, 0, "a.pdf", MaxTasks)

NextCarry ==
    \/ paintEvent
    \/ Workers
    \/ _on_render_finished
    \/ doc[1].rev < MaxEdits /\ add_text_at_page_center(0, TRUE)
    \/ stamps_placed < MaxStamps /\ place_stamp_on_page(TRUE)
    \/ doc[1].rev < MaxEdits /\ \E burned \in BOOLEAN : burn_overlay_stamps(burned)
    \/ _on_tab_changed

SpecCarry == InitCarry /\ [][NextCarry]_vars

\* C39 as stated: while the live document differs from the file at its
\* path, every render task that paintEvent schedules carries a byte snapshot
\* equal to the content of the live document.
TasksCarryCurrentContent ==
    [][(paintEvent /\ doc[1] # FileAt(file_path))
          => \A t \in 1..Len(tasks') :
                (t > Len(tasks) \/ tasks'[t] # tasks[t])
                   => tasks'[t].doc_bytes = << doc[1] >>]_vars

\* ----------------------------- specification: a render that does not deliver
\* a file is shown, painted and scrolled at an unchanged zoom, and an
\* annotation is added; fitz.open and either pass of a worker may raise. A
\* worker that was started runs to its end, and a queued finished signal is
\* delivered.
InitPending == InitWith(OneLetter, 0, "a.pdf", MaxTasks)

WorkerSteps ==
    \E t \in 1..Len(tasks) :
        \/ \E ok \in BOOLEAN : worker_open(t, ok)
        \/ \E ok \in BOOLEAN : worker_low(t, ok)
        \/ worker_check(t)
        \/ \E ok \in BOOLEAN : worker_high(t, ok)

NextPending ==
    \/ paintEvent
    \/ \E v \in {0, 100} : _on_scroll(v)
    \/ WorkerSteps
    \/ _on_render_finished
    \/ doc[1].rev < MaxEdits /\ \E ok \in BOOLEAN : add_text_at_page_center(0, ok)

SpecPending ==
    /\ InitPending
    /\ [][NextPending]_vars
    /\ WF_vars(WorkerSteps)
    /\ WF_vars(_on_render_finished)

\* C40 as stated: the key of page 0 at the unchanged zoom, once it is in the
\* pending-render set, is eventually removed from it, whether the passes of
\* its task succeed or raise.
PendingKeyRemoved ==
    (Key(0, ZOOM_UNIT) \in pending_renders)
        ~> (Key(0, ZOOM_UNIT) \notin pending_renders)

====
